---- MODULE Spec2Model ----
(***************************************************************************)
(* Model of the auth callout protocol handler of orbit.js                  *)
(* (callout/src/mod.ts): the TokenCallout constructor, TokenCallout.process *)
(* with its suspension points, TokenCallout.decode, and the AUTH endpoint   *)
(* of authorizationService that turns the outcome of process into a reply.  *)
(***************************************************************************)
EXTENDS Integers, Sequences, FiniteSets, TLC

\* ------------------------------------------------------------------------
\* Bounds of the model
\* ------------------------------------------------------------------------

\* number of requests delivered to the AUTH endpoint in one behaviour
MaxCalls == 2

\* registrations made with newMuxInbox, and messages arriving at the mux
\* subscription
MaxHandlers == 2
MaxArrivals == 2

\* length of the subjects given to subjectFor and tokenFor
MaxSubjectLen == 5

\* calls made on a Counters client
MaxOps == 3

\* functions given to a Pipeline
MaxFns == 2

\* messages published through a MutableMsg
MaxPublished == 2

\* events in the life of a KV watcher
MaxEvents == 5

\* calls of Kvm.add with one config object
MaxAdds == 2

\* replies the subscription of one getBatch is called with
MaxReplies == 3

\* characters in the name of a connection
MaxNameLen == 2

\* ------------------------------------------------------------------------
\* Program constants
\* ------------------------------------------------------------------------

NatsServerXkeyHeader == "Nats-Server-Xkey"

ExpectedAudience == "nats-authorization-request"

\* the four bytes compared by process: "eyJ0"
JwtPrefix == <<"e", "y", "J", "0">>

\* number of leading bytes process looks at
PrefixLen == 4

\* code used by the endpoint for an error that is not a ServiceError
DefaultErrorCode == 400

\* code of the ServiceError raised by decode
BadRequestCode == 500

\* ------------------------------------------------------------------------
\* Keys (nkeys): the type of a key is the letter its public form starts with
\* ------------------------------------------------------------------------

ServerKeys == {"N1", "N2"}
AccountKeys == {"A1"}
CurveKeys == {"X1", "X2", "X3"}
UserKeys == {"U1", "U2"}

KeyType(k) ==
  IF k \in ServerKeys THEN "N"
  ELSE IF k \in AccountKeys THEN "A"
  ELSE IF k \in CurveKeys THEN "X"
  ELSE IF k \in UserKeys THEN "U"
  ELSE ""

\* a key as handed to the constructor: public part, and whether the seed
\* (the private part) is available
NoKey == [pub |-> "", seed |-> FALSE]

\* jwt.checkKey(v, types, seed): TRUE when it returns the key pair, FALSE
\* when it throws
checkKey(k, types, seed) ==
  /\ KeyType(k.pub) \in types
  /\ (seed => k.seed)

\* ------------------------------------------------------------------------
\* Errors
\* ------------------------------------------------------------------------

\* new Error(message)
PlainError(message) == [service |-> FALSE, code |-> 0, message |-> message]

\* new ServiceError(code, message)
ServiceError(code, message) == [service |-> TRUE, code |-> code, message |-> message]

NoError == [service |-> FALSE, code |-> 0, message |-> ""]

MismatchServiceRequires ==
  PlainError("configuration mismatch - service requires encryption but server doesn't")

MismatchServerRequires ==
  PlainError("configuration mismatch - service does not require encryption but server does")

DecryptError == PlainError("failed to decrypt message")

XkeyMismatchError ==
  PlainError("server key in request didn't match server key in headers")

BadRequest == ServiceError(BadRequestCode, "bad request")

\* errors thrown by the libraries called from process
NKeysError == PlainError("nkeys: invalid encrypted payload or key")
JwtDecodeError == PlainError("jwt: invalid token")
CheckKeyError == PlainError("jwt: unexpected key type")

\* ------------------------------------------------------------------------
\* Payload bytes, claims documents, headers
\* ------------------------------------------------------------------------

\* jwt.AuthorizationRequest: the fields process reads
Request(server, xkey, user) ==
  [server_id |-> [id |-> server, xkey |-> xkey], user_nkey |-> user]

NoRequest == Request("", "", "")

\* jwt.ClaimsData<AuthorizationRequest>: audience and the embedded request
\* object (token.nats), which may be missing
Token(aud, req) == [aud |-> aud, hasNats |-> TRUE, nats |-> req]

TokenWithoutRequest(aud) == [aud |-> aud, hasNats |-> FALSE, nats |-> NoRequest]

NoToken == TokenWithoutRequest("")

\* first bytes of a payload sealed by an encryption key (nkeys "xkv1")
XKeyVersion == <<"x", "k", "v", "1">>

Min(a, b) == IF a < b THEN a ELSE b

\* a payload made of the given bytes that is neither a signed document nor
\* a sealed box. head is data.subarray(0, 4), len is data.length
Raw(bytes) ==
  [head |-> SubSeq(bytes, 1, Min(PrefixLen, Len(bytes))), len |-> Len(bytes),
   sealedBy |-> "", sealedFor |-> "", kind |-> "junk", token |-> NoToken]

\* the bytes of a signed claims document: header.payload.signature, whose
\* base64 header starts with "eyJ0" and which is longer than the prefix
JwtBytes(token) ==
  [head |-> JwtPrefix, len |-> Len(JwtPrefix) + 1,
   sealedBy |-> "", sealedFor |-> "", kind |-> "jwt", token |-> token]

JunkBytes == Raw(<<"a", "b", "c", "d", "e">>)

\* KeyPair.seal(plain, recipient) by the key pair whose public key is sender:
\* version bytes, nonce, box
SealBytes(sender, recipient, plain) ==
  [head |-> XKeyVersion, len |-> Len(XKeyVersion) + plain.len,
   sealedBy |-> sender, sealedFor |-> recipient,
   kind |-> plain.kind, token |-> plain.token]

\* the plaintext inside a sealed payload
PlainOf(data) == IF data.kind = "jwt" THEN JwtBytes(data.token) ELSE JunkBytes

\* a box sealed by one key pair for the public key of another opens exactly
\* for that pair: for the recipient naming the sender
BoxOpens(sealedBy, sealedFor, me, sender) ==
  /\ sealedBy # ""
  /\ KeyType(sender) = "X"
  /\ sealedBy = sender
  /\ sealedFor = me

\* this.encryptionKey.open(data, serverKey): the plaintext when the box
\* opens; otherwise the library returns null or throws
OpenOutcomes(kp, data, sender) ==
  IF BoxOpens(data.sealedBy, data.sealedFor, kp.pub, sender)
  THEN {[status |-> "ok", data |-> PlainOf(data)]}
  ELSE {[status |-> "null", data |-> data], [status |-> "throw", data |-> data]}

\* MsgHdrs: requestHeaders may be undefined
NoHeaders == [defined |-> FALSE, kv |-> {}]

Headers(kv) == [defined |-> TRUE, kv |-> kv]

\* the lookup ignoring the name of the header
HeaderGetAnyName(h, name) ==
  IF h.defined /\ h.kv # {}
  THEN (CHOOSE p \in h.kv : TRUE)[2]
  ELSE ""

\* requestHeaders?.get(name) || ""
HeaderGet(h, name) ==
  IF h.defined /\ \E p \in h.kv : p[1] = name
  THEN (CHOOSE p \in h.kv : p[1] = name)[2]
  ELSE ""

\* ------------------------------------------------------------------------
\* Decisions and response documents
\* ------------------------------------------------------------------------

\* Partial<jwt.AuthorizationResponse>: "" is an unset field
Decision(token, error) == [jwt |-> token, error |-> error]

NoDecision == Decision("", "")

\* the response document with a reason filled in for an empty decision
encodeAuthorizationResponseDefaultError(user, server, issuer, data) ==
  [sub |-> user, aud |-> server, iss |-> issuer.pub, signedBy |-> issuer.pub,
   jwt |-> data.jwt,
   error |-> IF data.jwt = "" /\ data.error = "" THEN "unauthorized" ELSE data.error]

\* the response document signed with the key of the user it is issued for
encodeAuthorizationResponseSignedByUser(user, server, issuer, data) ==
  [sub |-> user, aud |-> server, iss |-> user, signedBy |-> user,
   jwt |-> data.jwt, error |-> data.error]

\* the response document with the fields of the decision exchanged
encodeAuthorizationResponseSwapped(user, server, issuer, data) ==
  [sub |-> user, aud |-> server, iss |-> issuer.pub, signedBy |-> issuer.pub,
   jwt |-> data.error, error |-> data.jwt]

\* the signed response document built by jwt.encodeAuthorizationResponse(
\* user, server, issuer, data, {}): subject is the user, audience the server,
\* issuer and signature those of the issuer key, payload the decision. The
\* user and server keys come from a request the server built, and the call
\* is taken to succeed for them
encodeAuthorizationResponse(user, server, issuer, data) ==
  [sub |-> user, aud |-> server, iss |-> issuer.pub, signedBy |-> issuer.pub,
   jwt |-> data.jwt, error |-> data.error]

NoDoc == [sub |-> "", aud |-> "", iss |-> "", signedBy |-> "", jwt |-> "", error |-> ""]

\* this.sc.encode(r): the bytes of the document, not sealed
EncodeDoc(r) == [sealedBy |-> "", sealedFor |-> "", doc |-> r]

\* sealing for the service's own key instead of the recipient
SealDocForSelf(kp, r, recipient) == [sealedBy |-> kp.pub, sealedFor |-> kp.pub, doc |-> r]

\* this.encryptionKey.seal(this.sc.encode(r), serverKey)
SealDoc(kp, r, recipient) == [sealedBy |-> kp.pub, sealedFor |-> recipient, doc |-> r]

NoResult == EncodeDoc(NoDoc)

\* ------------------------------------------------------------------------
\* TokenCallout.decode
\* ------------------------------------------------------------------------

DecodeOk(req) == [ok |-> TRUE, req |-> req, err |-> NoError]

DecodeFail(err) == [ok |-> FALSE, req |-> NoRequest, err |-> err]

NotDecoded == DecodeFail(NoError)

\* decode naming the failed check in the error it rejects with
decodeNamingReason(data) ==
  IF ~(data.kind = "jwt" /\ data.sealedBy = "") THEN DecodeFail(JwtDecodeError)
  ELSE IF data.token.aud # ExpectedAudience
       THEN DecodeFail(ServiceError(BadRequestCode, "bad audience"))
  ELSE IF ~data.token.hasNats
       THEN DecodeFail(ServiceError(BadRequestCode, "missing auth request"))
  ELSE IF ~checkKey([pub |-> data.token.nats.server_id.id, seed |-> FALSE], {"N"}, FALSE)
       THEN DecodeFail(CheckKeyError)
  ELSE DecodeOk(data.token.nats)

\* decode without the audience check
decodeAnyAudience(data) ==
  IF ~(data.kind = "jwt" /\ data.sealedBy = "") THEN DecodeFail(JwtDecodeError)
  ELSE IF ~data.token.hasNats THEN DecodeFail(BadRequest)
  ELSE IF ~checkKey([pub |-> data.token.nats.server_id.id, seed |-> FALSE], {"N"}, FALSE)
       THEN DecodeFail(CheckKeyError)
  ELSE DecodeOk(data.token.nats)

\* decode(data): jwt.decode throws on anything that is not a signed document;
\* then the audience check, the embedded request, the server key type
decode(data) ==
  IF ~(data.kind = "jwt" /\ data.sealedBy = "") THEN DecodeFail(JwtDecodeError)
  ELSE IF data.token.aud # ExpectedAudience THEN DecodeFail(BadRequest)
  ELSE IF ~data.token.hasNats THEN DecodeFail(BadRequest)
  ELSE IF ~checkKey([pub |-> data.token.nats.server_id.id, seed |-> FALSE], {"N"}, FALSE)
       THEN DecodeFail(CheckKeyError)
  ELSE DecodeOk(data.token.nats)

\* ------------------------------------------------------------------------
\* TokenCallout.process: the steps between its suspension points
\* ------------------------------------------------------------------------

\* the length test written as >= instead of >
isEncryptedFromPrefixLen(data) ==
  IF data.len >= PrefixLen THEN data.head # JwtPrefix ELSE FALSE

\* lines 126-131: the payload is taken as encrypted when it is longer than
\* the prefix and its first four bytes are not "eyJ0"
isEncrypted(data) ==
  IF data.len > PrefixLen THEN data.head # JwtPrefix ELSE FALSE

\* the misconfiguration checks with the second one left out
MismatchOneWay(hasKey, enc) ==
  IF hasKey /\ ~enc THEN MismatchServiceRequires ELSE NoError

\* lines 133-146: the misconfiguration checks; NoError when both agree
Mismatch(hasKey, enc) ==
  IF hasKey /\ ~enc THEN MismatchServiceRequires
  ELSE IF ~hasKey /\ enc THEN MismatchServerRequires
  ELSE NoError

\* the server key check left out
XkeyMismatchNever(hasKey, req, serverKey) == FALSE

\* line 159: the server key of the request against the one of the headers
XkeyMismatch(hasKey, req, serverKey) ==
  hasKey /\ req.server_id.xkey # serverKey

\* what a call of process holds while it runs. trace lists, in order, the
\* operations the call has performed on the request
CallState(pc, enc, serverKey, decoded, err, trace) ==
  [pc |-> pc, isEncrypted |-> enc, serverKey |-> serverKey,
   decoded |-> decoded, err |-> err, trace |-> trace]

\* after open, without the test for null: the payload is decoded as it is
AfterOpenNoNullCheck(o, enc, serverKey) ==
  IF o.status = "throw"
  THEN CallState("rejected", enc, serverKey, NotDecoded, NKeysError,
                 <<"classify", "open">>)
  ELSE CallState("awaitDecode", enc, serverKey, decode(o.data), NoError,
                 <<"classify", "open", "decode">>)

\* lines 150-158: after open; a null result rejects, a throw of the library
\* rejects with its error, otherwise decode is called on the plaintext
AfterOpen(o, enc, serverKey) ==
  IF o.status = "null"
  THEN CallState("rejected", enc, serverKey, NotDecoded, DecryptError,
                 <<"classify", "open">>)
  ELSE IF o.status = "throw"
  THEN CallState("rejected", enc, serverKey, NotDecoded, NKeysError,
                 <<"classify", "open">>)
  ELSE CallState("awaitDecode", enc, serverKey, decode(o.data), NoError,
                 <<"classify", "open", "decode">>)

\* lines 124-158: process up to its first await, the one on decode
ProcessSync(h, data, requestHeaders) ==
  LET enc == isEncrypted(data)
      hasKey == h.encryptionKey # NoKey
      mismatch == Mismatch(hasKey, enc)
      serverKey == HeaderGet(requestHeaders, NatsServerXkeyHeader)
  IN  IF mismatch # NoError
      THEN {CallState("rejected", enc, "", NotDecoded, mismatch, <<"classify">>)}
      ELSE IF hasKey
      THEN {AfterOpen(o, enc, serverKey) :
              o \in OpenOutcomes(h.encryptionKey, data, serverKey)}
      ELSE {CallState("awaitDecode", enc, "", decode(data), NoError,
                      <<"classify", "decode">>)}

\* ------------------------------------------------------------------------
\* The AUTH endpoint of authorizationService: replies
\* ------------------------------------------------------------------------

NoReply == [kind |-> "none", data |-> NoResult, code |-> 0,
            description |-> "", message |-> ""]

\* every error reported with its own code field
ErrorReplyOwnCode(err) ==
  [kind |-> "respondError", data |-> NoResult, code |-> err.code,
   description |-> "error processing request", message |-> err.message]

\* every error reported with the default code
ErrorReplyDefaultCode(err) ==
  [kind |-> "respondError", data |-> NoResult, code |-> DefaultErrorCode,
   description |-> "error processing request", message |-> err.message]

\* lines 85-88: the code of a ServiceError, else 400; the fixed description;
\* the message of the error
ErrorReply(err) ==
  [kind |-> "respondError", data |-> NoResult,
   code |-> IF err.service THEN err.code ELSE DefaultErrorCode,
   description |-> "error processing request", message |-> err.message]

\* a decision carrying an error sent as an error reply
RespondReplyErrorAsFault(r) ==
  IF r.doc.error # ""
  THEN ErrorReply(PlainError(r.doc.error))
  ELSE [kind |-> "respond", data |-> r, code |-> 0,
        description |-> "", message |-> ""]

\* m.respond(r)
RespondReply(r) == [kind |-> "respond", data |-> r, code |-> 0,
                    description |-> "", message |-> ""]

\* ------------------------------------------------------------------------
\* Inputs
\* ------------------------------------------------------------------------

CallIds == 1..MaxCalls

ValidAud(req) == Token(ExpectedAudience, req)

\* requests of two servers; the second field is the server's encryption key
Req1 == Request("N1", "X2", "U1")
Req2 == Request("N2", "X3", "U2")

HX2 == Headers({<<NatsServerXkeyHeader, "X2">>})
HX3 == Headers({<<NatsServerXkeyHeader, "X3">>})
HOther == Headers({<<"Other-Header", "X2">>})

\* requests as a server that does not encrypt sends them, and malformed ones
PlainInputs ==
  {[data |-> JwtBytes(ValidAud(Req1)), headers |-> NoHeaders],
   [data |-> JwtBytes(ValidAud(Req2)), headers |-> HX3],
   [data |-> JwtBytes(Token("something-else", Req1)), headers |-> NoHeaders],
   [data |-> JwtBytes(TokenWithoutRequest(ExpectedAudience)), headers |-> NoHeaders],
   [data |-> JwtBytes(ValidAud(Request("A1", "X2", "U1"))), headers |-> NoHeaders],
   [data |-> Raw(<<>>), headers |-> NoHeaders],
   [data |-> Raw(<<"a", "b", "c">>), headers |-> NoHeaders],
   [data |-> Raw(<<"a", "b", "c", "d">>), headers |-> HX2],
   [data |-> Raw(<<"e", "y", "J", "0">>), headers |-> NoHeaders],
   [data |-> Raw(<<"e", "y", "J", "0", "x">>), headers |-> NoHeaders],
   [data |-> JunkBytes, headers |-> HX2]}

\* requests as a server that encrypts for the service key X1 sends them,
\* and the ways such a request can be wrong
SealedInputs ==
  {[data |-> SealBytes("X2", "X1", JwtBytes(ValidAud(Req1))), headers |-> HX2],
   [data |-> SealBytes("X3", "X1", JwtBytes(ValidAud(Req2))), headers |-> HX3],
   [data |-> SealBytes("X2", "X1", JwtBytes(ValidAud(Req1))), headers |-> NoHeaders],
   [data |-> SealBytes("X2", "X1", JwtBytes(ValidAud(Req1))), headers |-> HOther],
   [data |-> SealBytes("X2", "X1", JwtBytes(ValidAud(Req1))), headers |-> HX3],
   [data |-> SealBytes("X3", "X1", JwtBytes(ValidAud(Req1))), headers |-> HX3],
   [data |-> SealBytes("X2", "X3", JwtBytes(ValidAud(Req1))), headers |-> HX2],
   [data |-> SealBytes("X2", "X1", JwtBytes(Token("something-else", Req1))), headers |-> HX2],
   [data |-> SealBytes("X2", "X1", JunkBytes), headers |-> HX2]}

Inputs == PlainInputs \cup SealedInputs

NoInput == [data |-> Raw(<<>>), headers |-> NoHeaders]

\* what authorize may do: issue a token, reject with a reason, return an
\* empty object or one with both fields (the type is Partial), or throw
AuthorizerDecisions ==
  {Decision("T1", ""), Decision("", "E1"), NoDecision, Decision("T1", "E1")}

AuthorizerThrows == {PlainError("boom"), BadRequest}

\* keys a TokenCallout may be constructed with
SignerInputs ==
  {[pub |-> "A1", seed |-> TRUE], [pub |-> "A1", seed |-> FALSE],
   [pub |-> "U1", seed |-> TRUE]}

EncryptionInputs ==
  {NoKey, [pub |-> "X1", seed |-> TRUE], [pub |-> "X1", seed |-> FALSE],
   [pub |-> "N1", seed |-> TRUE]}

\* ------------------------------------------------------------------------
\* MuxSubscription: subjects, handlers and their queues
\* ------------------------------------------------------------------------

\* strings are sequences of characters
Chars == {"p", "q", ".", "x"}

\* this.prefix, the inbox createInbox() returned: two tokens joined by "."
MuxPrefix == <<"p", ".", "q">>

\* s.startsWith(p)
StartsWith(s, p) == Len(s) >= Len(p) /\ SubSeq(s, 1, Len(p)) = p

\* s.slice(n): the characters of s from index n (counted from 0) on
Slice(s, n) == SubSeq(s, n + 1, Len(s))

Returns(v) == [ok |-> TRUE, value |-> v]

\* throw new Error("partial subject must not start with '.'")
Throws == [ok |-> FALSE, value |-> <<>>]

\* subjectFor with the prefix stripped by its text alone, as tokenFor does
\* not: a partial subject is never stripped
subjectForNeverStripping(partialSubject) ==
  IF StartsWith(partialSubject, <<".">>)
  THEN Throws
  ELSE Returns(MuxPrefix \o <<".">> \o partialSubject)

\* lines 100-108
subjectFor(partialSubject) ==
  LET p == IF StartsWith(partialSubject, MuxPrefix)
           THEN Slice(partialSubject, Len(MuxPrefix) + 1)
           ELSE partialSubject
  IN  IF StartsWith(p, <<".">>)
      THEN Throws
      ELSE Returns(MuxPrefix \o <<".">> \o p)

\* lines 110-118
tokenFor(subj) ==
  LET s == IF StartsWith(subj, MuxPrefix)
           THEN Slice(subj, Len(MuxPrefix) + 1)
           ELSE subj
  IN  IF StartsWith(s, <<".">>) THEN Throws ELSE Returns(s)

\* the tokens handlers are registered for and messages arrive on
MuxTokens == {<<"x">>, <<"q">>}

\* what callers pass to newMuxInbox and cancelMuxInbox: a token, the full
\* subject of a token, a subject starting with "."
MuxSubjects ==
  MuxTokens \cup {MuxPrefix \o <<".", "x">>, <<".", "x">>}

HandlerIds == 1..MaxHandlers

\* handlers.get(token) is undefined
Undefined == 0

\* what a QueuedIteratorImpl holds besides messages: the callbacks
\* () => fn.stop() and () => fn.stop(err)
StopFn == 0
StopErrFn == -1

\* a handler: the callback or iterator of one call of newMuxInbox.
\*   yields   QueuedIteratorImpl.yields: messages (by arrival number) and
\*            stop callbacks waiting for the consumer
\*   done     QueuedIteratorImpl.done; err: the error stop was given
\*   closing  iterClosed has resolved and its then-callback has yet to run
\*   routed   the messages the subscription callback gave the handler
\*   got      the messages the callback was invoked with or the iterator
\*            yielded to its consumer
\*   api      what the caller last did with it: "registered" by
\*            newMuxInbox, "replaced" by a later newMuxInbox for its token,
\*            "cancelled" by cancelMuxInbox, "ended" when its iterator ended
Handler(kind, token) ==
  [kind |-> kind, token |-> token, yields |-> <<>>, done |-> FALSE, err |-> FALSE,
   closing |-> FALSE, routed |-> <<>>, got |-> <<>>, api |-> "registered"]

NoHandler == [Handler("none", <<>>) EXCEPT !.api = "none"]

\* QueuedIteratorImpl.push(v): dropped once the iterator is done
Push(qi, v) == IF qi.done THEN qi ELSE [qi EXCEPT !.yields = Append(@, v)]

\* ------------------------------------------------------------------------
\* Counters: numbers as text, the counter stream, direct get replies
\* ------------------------------------------------------------------------

Digits == <<"0", "1", "2", "3", "4", "5", "6", "7", "8", "9">>

RECURSIVE NattoString(_)
NattoString(n) ==
  IF n < 10 THEN <<Digits[n + 1]>>
  ELSE NattoString(n \div 10) \o <<Digits[(n % 10) + 1]>>

\* n.toString() of an integer number or bigint: its decimal digits
toString(n) == IF n < 0 THEN <<"-">> \o NattoString(-n) ELSE NattoString(n)

RECURSIVE ParseNat(_)
ParseNat(s) ==
  IF s = <<>> THEN 0
  ELSE ParseNat(SubSeq(s, 1, Len(s) - 1)) * 10
         + (CHOOSE d \in 0..9 : Digits[d + 1] = s[Len(s)])

\* BigInt(s) of a decimal string
BigInt(s) == IF s # <<>> /\ s[1] = "-" THEN -ParseNat(Tail(s)) ELSE ParseNat(s)

\* BigInt of the increment as a magnitude, its sign dropped
BigIntUnsigned(s) == IF s # <<>> /\ s[1] = "-" THEN ParseNat(Tail(s)) ELSE ParseNat(s)

\* counter names are subjects: sequences of tokens
CounterNames == {<<"c", "a">>, <<"c", "b">>}

\* a subject matches a filter token by token; "*" stands for one token,
\* ">" for one or more at the end
RECURSIVE SubjectMatches(_, _)
SubjectMatches(subject, filter) ==
  IF filter = <<>> THEN subject = <<>>
  ELSE IF subject = <<>> THEN FALSE
  ELSE IF Head(filter) = ">" THEN Len(filter) = 1
  ELSE /\ Head(filter) \in {"*", Head(subject)}
       /\ SubjectMatches(Tail(subject), Tail(filter))

\* the stream sequence of the latest message of a subject, 0 without one
LastSeq(stream, subject) ==
  LET S == {i \in 1..Len(stream) : stream[i].subject = subject}
  IN  IF S = {} THEN 0 ELSE CHOOSE i \in S : \A j \in S : j <= i

\* the message a counter stream stores for a publish with Nats-Incr: the
\* value of the subject's latest message plus the increment
StoredMsg(stream, subject, incr) ==
  LET last == LastSeq(stream, subject)
      before == IF last = 0 THEN 0 ELSE BigInt(stream[last].val)
  IN  [subject |-> subject, incr |-> incr, val |-> toString(before + BigInt(incr))]

\* a reply of the direct get API: a status (code # 0) or a stored message
\* with its Nats-Subject, Nats-Sequence and Nats-Incr headers
StatusReply(code) == [code |-> code, subject |-> <<>>, seq |-> <<>>, incr |-> <<>>, val |-> <<>>]

DirectMsg(stream, i) ==
  [code |-> 0, subject |-> stream[i].subject, seq |-> toString(i),
   incr |-> stream[i].incr, val |-> stream[i].val]

NotFound == 404
EndOfBatch == 204
ServerError == 500

\* new Counter(m): subject, seq, delta and value read from the message
Counter(m) ==
  [null |-> FALSE, subject |-> m.subject, seq |-> BigInt(m.seq),
   delta |-> BigInt(m.incr), value |-> BigInt(m.val)]

\* the result null
Null == [null |-> TRUE, subject |-> <<>>, seq |-> 0, delta |-> 0, value |-> 0]

\* what value resolves to: c.value of the counter, or null
ValueOnly(c) == IF c.null THEN Null ELSE [Null EXCEPT !.null = FALSE, !.value = c.value]

OpIds == 1..MaxOps

\* the deltas callers increment by
Deltas == {-11, 10}

\* the names callers read: a counter and a name without a counter
ReadNames == {<<"c", "a">>, <<"c", "z">>}

\* the names and wildcards callers give to values and getCounters
NameLists ==
  {{<<"c", "*">>}, {<<"c", "a">>, <<"c", "z">>}}

\* an item of the iterator values and getCounters return: a value, or the
\* callback () => iter.stop(done.err)
Item(v) == [stop |-> FALSE, err |-> FALSE, v |-> v]

StopItem(err) == [stop |-> TRUE, err |-> err, v |-> Null]

\* a DirectMsgRequest: { seq }, { last_by_subj } or { multi_last }
NoQuery == [seq |-> 0, last_by_subj |-> <<>>, multi_last |-> {}, batch |-> 0]

\* line 527: opts.batch = opts.batch || 1024
DefaultBatch == 1024

\* one call on the Counters client.
\*   header  the Nats-Incr header of an increment
\*   query   the direct get request: seq, last_by_subj or multi_last
\*   at      the length of the stream when the server answered
\*   reply   the PubAck or the direct get reply; inbox: the replies of a
\*           batch the subscription callback has yet to be called with
\*   result  what the promise resolved with
\*   yields, got, done, err: the iterator, as for QueuedIteratorImpl
NoOp ==
  [kind |-> "none", pc |-> "idle", name |-> <<>>, names |-> {}, n |-> 0, seq |-> 0,
   header |-> <<>>, query |-> NoQuery, at |-> 0, reply |-> StatusReply(0), inbox |-> <<>>,
   result |-> Null, yields |-> <<>>, got |-> <<>>, done |-> FALSE, err |-> FALSE]

\* ------------------------------------------------------------------------
\* State
\* ------------------------------------------------------------------------

VARIABLES
  args,    \* the arguments authorizationService constructs the handler with
  tc,      \* the TokenCallout: state of construction and its fields
  input,   \* per call: the data and headers of the message m
  call,    \* per call: the state of process(m.data, m.headers)
  req,     \* per call: the request passed to authorize
  cr,      \* per call: the decision authorize returned
  result,  \* per call: the bytes process resolved with
  reply    \* per call: what the endpoint sent for m

VARIABLES
  sub,       \* MuxSubscription.sub: open or closed, and how it closed
  handlers,  \* MuxSubscription.handlers: token -> handler
  handler,   \* per registration: the callback or iterator and its history
  arrivals,  \* the messages the subscription callback has been called with
  conv,      \* the latest subject conversion: its argument and results
  stream,    \* the counter stream: the messages the server stores
  ops,       \* per call on the Counters client: its arguments and progress
  pipeline,  \* Pipeline.pipeline: the functions given to the constructor
  run        \* the call of Pipeline.transform: its message and progress

VARIABLES
  sync,   \* a SyncPipeline and its call of transform
  mmsg,   \* a source message, the MutableMsg made from it, what was published
  watch,  \* a KV watcher: its event source, its callback, its stopped promise
  kv,     \* a call of Kv.get: the gateway's response and the outcome
  kvm,    \* a config object and the calls of Kvm.add made with it
  copts,  \* a connection-options object, its encoding, the parse of that
  gb      \* a call of getBatch with a callback

calloutVars == <<args, tc, input, call, req, cr, result, reply>>

muxVars == <<sub, handlers, handler, arrivals>>

counterVars == <<stream, ops>>

pipelineVars == <<pipeline, run>>

\* the variables of the other packages, which a package leaves alone
smallVars == <<sync, mmsg, watch, kv, kvm, copts, gb>>

elsewhere == <<muxVars, conv, counterVars, pipelineVars, smallVars>>

outsideMux == <<calloutVars, conv, counterVars, pipelineVars, smallVars>>

outsideSubjects == <<calloutVars, muxVars, counterVars, pipelineVars, smallVars>>

outsideCounters == <<calloutVars, muxVars, conv, pipelineVars, smallVars>>

outsidePipeline == <<calloutVars, muxVars, conv, counterVars, smallVars>>

largeVars == <<calloutVars, muxVars, conv, counterVars, pipelineVars>>

outsideSync == <<largeVars, mmsg, watch, kv, kvm, copts, gb>>

outsideMsg == <<largeVars, sync, watch, kv, kvm, copts, gb>>

outsideWatch == <<largeVars, sync, mmsg, kv, kvm, copts, gb>>

outsideKv == <<largeVars, sync, mmsg, watch, kvm, copts, gb>>

outsideKvm == <<largeVars, sync, mmsg, watch, kv, copts, gb>>

outsideOptions == <<largeVars, sync, mmsg, watch, kv, kvm, gb>>

outsideBatch == <<largeVars, sync, mmsg, watch, kv, kvm, copts>>

vars == <<calloutVars, elsewhere>>

Idle == CallState("idle", FALSE, "", NotDecoded, NoError, <<>>)

NotConstructed ==
  [state |-> "none", authorizer |-> FALSE,
   authorizationResponseSigner |-> NoKey, encryptionKey |-> NoKey]

NoArgs == [authorizer |-> FALSE, authAccountKey |-> NoKey, encryptionKey |-> NoKey]

\* the messages transform is called with and functions return, the errors
\* functions fail with, the functions a Pipeline is made of
Msgs == {"m0", "m1", "m2"}

Errs == {"e1", "e2"}

Fns == {"f", "g"}

\* a call of transform:
\*   pc      "new" before the constructor, "idle" before transform,
\*           "calling" while a function is awaited, then "resolved" or
\*           "rejected"
\*   arg     the message transform was called with
\*   m       the local m of transform
\*   i       the position in the pipeline of the function last invoked
\*   calls   the functions invoked so far, each with its argument
\*   outs    what the invoked functions returned
\*   thrown  what a function threw or rejected with
\*   result, err  what transform resolved or rejected with
NoRun ==
  [pc |-> "new", arg |-> "", m |-> "", i |-> 0, calls |-> <<>>, outs |-> <<>>,
   thrown |-> "", result |-> "", err |-> ""]

\* no subject has been converted
NoConversion ==
  [arg |-> <<>>, done |-> FALSE, subject |-> Throws, token |-> Throws, again |-> Throws]

\* a SyncPipeline before its constructor; its call of transform:
\*   pc       "new", "idle", then "returned" or "threw"
\*   arg      the message transform was called with
\*   calls    the functions invoked, each with its argument
\*   outs     what the invoked functions returned
\*   thrown   what a function threw
\*   ret      the Result transform returned
NoSync ==
  [pc |-> "new", pipeline |-> <<>>, arg |-> "", calls |-> <<>>, outs |-> <<>>,
   thrown |-> "", ret |-> [isError |-> FALSE, value |-> "", error |-> ""]]

\* the objects messages refer to: the data buffer and the headers of the
\* source message, a buffer and headers made later by the caller
Refs == {"src.data", "src.headers", "other.data", "other.headers"}

\* the reference a field holds while it is undefined
NoRef == ""

\* the private fields of a MutableMsg after new MutableMsg(): all
\* undefined; data and headers hold references
NoFields ==
  [subject |-> "", reply |-> "", sid |-> 0, data |-> NoRef,
   headers |-> NoRef, publisher |-> FALSE]

\* no respond or respondError has been called
NoCall == [op |-> "none", publisher |-> FALSE, reply |-> "", before |-> 0, result |-> ""]

\* a source message and a MutableMsg:
\*   pc         "new" before there is a MutableMsg, then "made"
\*   heap       what each buffer and headers object holds
\*   src        the source message, orig what it held when fromMsg read it
\*   mm         the private fields of the MutableMsg
\*   changed    whether anything was changed through the MutableMsg
\*   published  what the publisher was given
\*   last       the latest call of respond or respondError
NoMsgs ==
  [pc |-> "new", heap |-> [r \in Refs |-> "a"], src |-> NoFields, orig |-> NoFields,
   mm |-> NoFields, changed |-> FALSE, published |-> <<>>, last |-> NoCall]

\* a KV watcher:
\*   pc          "new" before watch(), then "watching"
\*   readyState  of its EventSource: "open" (connecting or open) or "closed"
\*   stopped     whether the stopped promise has resolved
\*   log         what has happened, in order: "update" and "closed" for
\*               the callback being called with an update and with the
\*               error "watcher closed", "stop" for a call of stop(),
\*               "fail" for the EventSource failing its connection
NoWatcher == [pc |-> "new", readyState |-> "closed", stopped |-> FALSE, log |-> <<>>]

\* no Response of the gateway
NoResponse ==
  [status |-> 0, statusText |-> "", gatewayError |-> "", contentType |-> "", body |-> ""]

\* what get settles with: null, an entry, or an Error with a message
NoOutcome == [kind |-> "none", entry |-> "", message |-> <<>>]

\* a call of Kv.get:
\*   pc        "new", "fetching", "fetched", then "resolved" or "rejected"
\*   path      the path and query string requested
\*   response  the Response fetch resolved with
\*   outcome   what get resolved or rejected with
NoGet == [pc |-> "new", path |-> <<>>, response |-> NoResponse, outcome |-> NoOutcome]

\* a number ms * 1_000_000^scale, kept as its two parts: the products
\* are beyond the integers of the model checker, not beyond the numbers
\* of the program
Millis(ms) == [ms |-> ms, scale |-> 0]

\* a config object and the calls of Kvm.add made with it:
\*   pc      "new" before the caller has made the config, "idle" between
\*           calls, "fetching" while add awaits the gateway
\*   given   whether the caller passes a config at all
\*   ttl     config.ttl as it is now, before as the caller set it
\*   sent    the requests: the bucket, whether there is a payload, its ttl
\*   ends    how each call ended: "resolved" or "rejected"
NoAdds ==
  [pc |-> "new", given |-> FALSE, ttl |-> Millis(0), before |-> Millis(0),
   sent |-> <<>>, ends |-> <<>>]

\* a property of an object: unset, or set to a value
Unset(v) == [set |-> FALSE, v |-> v]

Given(v) == [set |-> TRUE, v |-> v]

\* a number: its whole part and the digits of its fraction
Num(i) == [i |-> i, frac |-> <<>>]

\* a server as written in servers: host:port with or without a scheme
Server(scheme, name, port) == [scheme |-> scheme, name |-> name, port |-> port]

\* servers: one string, or an array of strings
OneServer(s) == [array |-> FALSE, list |-> <<s>>]

ServerArray(l) == [array |-> TRUE, list |-> l]

\* the tls options {}
EmptyTls == [handshakeFirst |-> Unset(FALSE), cert |-> Unset("")]

\* the connection options {}
EmptyOptions ==
  [servers |-> Unset(ServerArray(<<>>)), user |-> Unset(""), pass |-> Unset(""),
   token |-> Unset(""), name |-> Unset(<<>>), timeout |-> Unset(Num(0)),
   debug |-> Unset(FALSE), handshakeFirst |-> Unset(FALSE), tls |-> Unset(EmptyTls)]

\* the query parameters encode appends and parse reads
ParamNames == {"servers", "name", "timeout", "debug", "handshakeFirst", "cert"}

\* a URL: protocol (without the colon), username, password, host and the
\* values of each query parameter, in the order they were appended
Url(protocol, host) ==
  [protocol |-> protocol, username |-> "", password |-> "", host |-> host,
   params |-> [n \in ParamNames |-> <<>>]]

\* a connection-options object, its encoding, the parse of that:
\*   pc       "new", "made", "encoded", "parsed"
\*   opts     the object given to encode
\*   encoded  what encode returned, or that it threw
\*   parsed   what parse resolved with
NoOptions ==
  [pc |-> "new", opts |-> EmptyOptions, threw |-> FALSE,
   encoded |-> Url("", Server("", "", "")), parsed |-> EmptyOptions]

\* one getBatch call made with a callback:
\*   subscribed      the subscription on the inbox is open
\*   batchSupported  a reply with Nats-Num-Pending has been seen
\*   done, err       getBatch's own iterator: stop has run, with an error
\*   closing         iterClosed has resolved and its then-callback has yet
\*                   to run
\*   arrived         the replies the subscription callback was called with
\*   calls           the calls of the caller's callback: done and message
NoBatch ==
  [pc |-> "new", subscribed |-> FALSE, batchSupported |-> FALSE, done |-> FALSE,
   err |-> FALSE, closing |-> FALSE, arrived |-> <<>>, calls |-> <<>>]

Init ==
  /\ args = NoArgs
  /\ tc = NotConstructed
  /\ input = [c \in CallIds |-> NoInput]
  /\ call = [c \in CallIds |-> Idle]
  /\ req = [c \in CallIds |-> NoRequest]
  /\ cr = [c \in CallIds |-> NoDecision]
  /\ result = [c \in CallIds |-> NoResult]
  /\ reply = [c \in CallIds |-> NoReply]
  /\ sub = [state |-> "open", err |-> FALSE, notified |-> FALSE]
  /\ handlers = [t \in MuxTokens |-> Undefined]
  /\ handler = [h \in HandlerIds |-> NoHandler]
  /\ arrivals = <<>>
  /\ conv = NoConversion
  /\ stream = <<>>
  /\ ops = [k \in OpIds |-> NoOp]
  /\ pipeline = <<>>
  /\ run = NoRun
  /\ sync = NoSync
  /\ mmsg = NoMsgs
  /\ watch = NoWatcher
  /\ kv = NoGet
  /\ kvm = NoAdds
  /\ copts = NoOptions
  /\ gb = NoBatch

\* the constructor without the check of the encryption key
ConstructedAnyEncryptionKey(authorizer, authAccountKey, encryptionKey) ==
  IF /\ authorizer
     /\ checkKey(authAccountKey, {"A"}, TRUE)
  THEN [state |-> "ok", authorizer |-> authorizer,
        authorizationResponseSigner |-> authAccountKey,
        encryptionKey |-> encryptionKey]
  ELSE [NotConstructed EXCEPT !.state = "failed"]

\* lines 100-118: the constructor throws without an authorizer, for a
\* signing key that is not an account seed, for an encryption key that is
\* not a curve seed
Constructed(authorizer, authAccountKey, encryptionKey) ==
  IF /\ authorizer
     /\ checkKey(authAccountKey, {"A"}, TRUE)
     /\ (encryptionKey # NoKey => checkKey(encryptionKey, {"X"}, TRUE))
  THEN [state |-> "ok", authorizer |-> authorizer,
        authorizationResponseSigner |-> authAccountKey,
        encryptionKey |-> encryptionKey]
  ELSE [NotConstructed EXCEPT !.state = "failed"]

\* new TokenCallout(authorizer, authorizationResponseSigner, encryptionKey)
Construct ==
  /\ tc.state = "none"
  /\ \E a \in BOOLEAN, s \in SignerInputs, e \in EncryptionInputs :
       /\ args' = [authorizer |-> a, authAccountKey |-> s, encryptionKey |-> e]
       /\ tc' = Constructed(a, s, e)
  /\ UNCHANGED <<input, call, req, cr, result, reply, elsewhere>>

\* process remembering the requests it has seen and refusing one it is
\* given a second time
DeliverRejectingReplay(c) ==
  /\ tc.state = "ok"
  /\ call[c].pc = "idle"
  /\ \A d \in CallIds : d < c => call[d].pc # "idle"
  /\ \E i \in Inputs :
       /\ input' = [input EXCEPT ![c] = i]
       /\ \E s \in (IF \E d \in CallIds : input[d] = i
                    THEN {CallState("rejected", FALSE, "", NotDecoded,
                                    PlainError("duplicate request"), <<>>)}
                    ELSE ProcessSync(tc, i.data, i.headers)) :
            call' = [call EXCEPT ![c] = s]
  /\ UNCHANGED <<args, tc, req, cr, result, reply, elsewhere>>

\* process keeping the server key of the request in a field of the handler
DeliverKeepingServerKey(c) ==
  /\ tc.state = "ok"
  /\ call[c].pc = "idle"
  /\ \A d \in CallIds : d < c => call[d].pc # "idle"
  /\ \E i \in Inputs :
       /\ input' = [input EXCEPT ![c] = i]
       /\ \E s \in ProcessSync(tc, i.data, i.headers) :
            call' = [call EXCEPT ![c] = s]
       /\ tc' = [state |-> tc.state, authorizer |-> tc.authorizer,
                 authorizationResponseSigner |-> tc.authorizationResponseSigner,
                 encryptionKey |-> tc.encryptionKey,
                 serverKey |-> HeaderGet(i.headers, NatsServerXkeyHeader)]
  /\ UNCHANGED <<args, req, cr, result, reply, elsewhere>>

\* lines 76-82 and 124-158: a message arrives at the endpoint without a
\* handler error; process runs up to its await on decode
Deliver(c) ==
  /\ tc.state = "ok"
  /\ call[c].pc = "idle"
  /\ \A d \in CallIds : d < c => call[d].pc # "idle"
  /\ \E i \in Inputs :
       /\ input' = [input EXCEPT ![c] = i]
       /\ \E s \in ProcessSync(tc, i.data, i.headers) :
            call' = [call EXCEPT ![c] = s]
  /\ UNCHANGED <<args, tc, req, cr, result, reply, elsewhere>>

\* lines 158-165: process resumes with the outcome of decode, checks the
\* server key and calls authorize
ResumeDecoded(c) ==
  /\ call[c].pc = "awaitDecode"
  /\ LET s == call[c]
         hasKey == tc.encryptionKey # NoKey
     IN  IF ~s.decoded.ok
         THEN /\ call' = [call EXCEPT ![c].pc = "rejected", ![c].err = s.decoded.err]
              /\ UNCHANGED req
         ELSE IF XkeyMismatch(hasKey, s.decoded.req, s.serverKey)
         THEN /\ call' = [call EXCEPT ![c].pc = "rejected", ![c].err = XkeyMismatchError]
              /\ UNCHANGED req
         ELSE /\ call' = [call EXCEPT ![c].pc = "authorizing",
                                      ![c].trace = Append(s.trace, "authorize")]
              /\ req' = [req EXCEPT ![c] = s.decoded.req]
  /\ UNCHANGED <<args, tc, input, cr, result, reply, elsewhere>>

\* lines 165-176: authorize returns a decision; process calls
\* jwt.encodeAuthorizationResponse with it
AuthorizeReturns(c) ==
  /\ call[c].pc = "authorizing"
  /\ \E d \in AuthorizerDecisions :
       /\ cr' = [cr EXCEPT ![c] = d]
       /\ call' = [call EXCEPT ![c].pc = "encoding",
                               ![c].trace = Append(call[c].trace, "encode")]
  /\ UNCHANGED <<args, tc, input, req, result, reply, elsewhere>>

\* process giving up on authorize by itself
AuthorizeThrowsOrTimesOut(c) ==
  /\ call[c].pc = "authorizing"
  /\ \E e \in AuthorizerThrows \cup {PlainError("timeout")} :
       call' = [call EXCEPT ![c].pc = "rejected", ![c].err = e]
  /\ UNCHANGED <<args, tc, input, req, cr, result, reply, elsewhere>>

\* authorize called a second time after it failed once
AuthorizeThrowsRetried(c) ==
  /\ call[c].pc = "authorizing"
  /\ IF Len(SelectSeq(call[c].trace, LAMBDA op : op = "authorize")) < 2
     THEN call' = [call EXCEPT ![c].trace = Append(call[c].trace, "authorize")]
     ELSE \E e \in AuthorizerThrows :
            call' = [call EXCEPT ![c].pc = "rejected", ![c].err = e]
  /\ UNCHANGED <<args, tc, input, req, cr, result, reply, elsewhere>>

\* line 165: authorize throws or its promise rejects; process rejects with
\* the same error
AuthorizeThrows(c) ==
  /\ call[c].pc = "authorizing"
  /\ \E e \in AuthorizerThrows :
       call' = [call EXCEPT ![c].pc = "rejected", ![c].err = e]
  /\ UNCHANGED <<args, tc, input, req, cr, result, reply, elsewhere>>

\* the server key kept in one place shared by all calls: the response is
\* sealed for the key of the request delivered last
EncodeReturnsSharedKey(c) ==
  /\ call[c].pc = "encoding"
  /\ LET r == encodeAuthorizationResponse(req[c].user_nkey, req[c].server_id.id,
                                          tc.authorizationResponseSigner, cr[c])
         last == CHOOSE d \in CallIds :
                   /\ call[d].pc # "idle"
                   /\ \A e \in CallIds : call[e].pc # "idle" => e <= d
     IN  IF tc.encryptionKey # NoKey
         THEN /\ result' = [result EXCEPT ![c] = SealDoc(tc.encryptionKey, r, call[last].serverKey)]
              /\ call' = [call EXCEPT ![c].pc = "resolved",
                                      ![c].trace = Append(call[c].trace, "seal")]
         ELSE /\ result' = [result EXCEPT ![c] = EncodeDoc(r)]
              /\ call' = [call EXCEPT ![c].pc = "resolved"]
  /\ UNCHANGED <<args, tc, input, req, cr, reply, elsewhere>>

\* lines 170-182: the signed document is ready; process seals it when the
\* handler has an encryption key and resolves
EncodeReturns(c) ==
  /\ call[c].pc = "encoding"
  /\ LET r == encodeAuthorizationResponse(req[c].user_nkey, req[c].server_id.id,
                                          tc.authorizationResponseSigner, cr[c])
     IN  IF tc.encryptionKey # NoKey
         THEN /\ result' = [result EXCEPT ![c] = SealDoc(tc.encryptionKey, r, call[c].serverKey)]
              /\ call' = [call EXCEPT ![c].pc = "resolved",
                                      ![c].trace = Append(call[c].trace, "seal")]
         ELSE /\ result' = [result EXCEPT ![c] = EncodeDoc(r)]
              /\ call' = [call EXCEPT ![c].pc = "resolved"]
  /\ UNCHANGED <<args, tc, input, req, cr, reply, elsewhere>>

\* lines 82-84: process resolved, the endpoint responds with the bytes
Respond(c) ==
  /\ call[c].pc = "resolved"
  /\ reply' = [reply EXCEPT ![c] = RespondReply(result[c])]
  /\ call' = [call EXCEPT ![c].pc = "replied"]
  /\ UNCHANGED <<args, tc, input, req, cr, result, elsewhere>>

\* the rejection of process left without a reply
RespondErrorDropped(c) ==
  /\ call[c].pc = "rejected"
  /\ call' = [call EXCEPT ![c].pc = "replied"]
  /\ UNCHANGED <<args, tc, input, req, cr, result, reply, elsewhere>>

\* lines 84-89: process rejected, the endpoint responds with an error
RespondError(c) ==
  /\ call[c].pc = "rejected"
  /\ reply' = [reply EXCEPT ![c] = ErrorReply(call[c].err)]
  /\ call' = [call EXCEPT ![c].pc = "replied"]
  /\ UNCHANGED <<args, tc, input, req, cr, result, elsewhere>>

Next ==
  \/ Construct
  \/ \E c \in CallIds :
       \/ Deliver(c)
       \/ ResumeDecoded(c)
       \/ AuthorizeReturns(c)
       \/ AuthorizeThrows(c)
       \/ EncodeReturns(c)
       \/ Respond(c)
       \/ RespondError(c)

Spec == Init /\ [][Next]_vars

\* one request for each way process can end: answered in the clear, wrong
\* audience, not a signed document, server_id not a server key; answered
\* sealed, relayed under another header, not opening for the header's key
RepresentativeInputs ==
  {[data |-> JwtBytes(ValidAud(Req1)), headers |-> NoHeaders],
   [data |-> JwtBytes(Token("something-else", Req1)), headers |-> NoHeaders],
   [data |-> Raw(<<"e", "y", "J", "0", "x">>), headers |-> NoHeaders],
   [data |-> JwtBytes(ValidAud(Request("A1", "X2", "U1"))), headers |-> NoHeaders],
   [data |-> SealBytes("X2", "X1", JwtBytes(ValidAud(Req1))), headers |-> HX2],
   [data |-> SealBytes("X3", "X1", JwtBytes(ValidAud(Req1))), headers |-> HX3],
   [data |-> SealBytes("X2", "X1", JwtBytes(ValidAud(Req1))), headers |-> HX3]}

\* Deliver with the request drawn from RepresentativeInputs
DeliverRepresentative(c) ==
  /\ tc.state = "ok"
  /\ call[c].pc = "idle"
  /\ \A d \in CallIds : d < c => call[d].pc # "idle"
  /\ \E i \in RepresentativeInputs :
       /\ input' = [input EXCEPT ![c] = i]
       /\ \E s \in ProcessSync(tc, i.data, i.headers) :
            call' = [call EXCEPT ![c] = s]
  /\ UNCHANGED <<args, tc, req, cr, result, reply, elsewhere>>

NextFair ==
  \/ Construct
  \/ \E c \in CallIds :
       \/ DeliverRepresentative(c)
       \/ ResumeDecoded(c)
       \/ AuthorizeReturns(c)
       \/ AuthorizeThrows(c)
       \/ EncodeReturns(c)
       \/ Respond(c)
       \/ RespondError(c)

\* The event loop runs the continuations of settled promises: process
\* resumes after decode and after encodeAuthorizationResponse, and the
\* then/catch callbacks of the endpoint run once process has settled.
\* Nothing makes authorize complete.
Fairness ==
  \A c \in CallIds :
    /\ WF_vars(ResumeDecoded(c))
    /\ WF_vars(EncodeReturns(c))
    /\ WF_vars(Respond(c))
    /\ WF_vars(RespondError(c))

\* the handler under fair scheduling, serving the representative requests
SpecFair == Init /\ [][NextFair]_vars /\ Fairness

\* ------------------------------------------------------------------------
\* MuxSubscription: operations
\* ------------------------------------------------------------------------

\* the handler the caller holds registered for the token: the one given to
\* the latest newMuxInbox for it, unless cancelled or ended since
Registered(t) ==
  LET R == {h \in HandlerIds : handler[h].token = t /\ handler[h].api = "registered"}
  IN  IF R = {} THEN Undefined ELSE CHOOSE h \in R : TRUE

\* lines 120-139: newMuxInbox(subj, cb) and newMuxInbox(subj); tokenFor
\* throws before anything is registered, handlers.set replaces what the
\* token had
NewMuxInbox(subj, kind) ==
  /\ \E h \in HandlerIds :
       /\ handler[h].kind = "none"
       /\ \A g \in HandlerIds : g < h => handler[g].kind # "none"
       /\ LET t == tokenFor(subj)
          IN  IF ~t.ok
              THEN UNCHANGED <<handlers, handler>>
              ELSE /\ handlers' = [handlers EXCEPT ![t.value] = h]
                   /\ handler' =
                        [g \in HandlerIds |->
                           IF g = h THEN Handler(kind, t.value)
                           ELSE IF handler[g].token = t.value /\ handler[g].api = "registered"
                           THEN [handler[g] EXCEPT !.api = "replaced"]
                           ELSE handler[g]]
  /\ UNCHANGED <<sub, arrivals, outsideMux>>

\* lines 141-150: cancelMuxInbox(subj) pushes a stop callback to the
\* iterator the token has and deletes the token
CancelMuxInbox(subj) ==
  /\ LET t == tokenFor(subj)
     IN  IF ~t.ok
         THEN UNCHANGED <<handlers, handler>>
         ELSE LET qi == handlers[t.value]
              IN  /\ handlers' = [handlers EXCEPT ![t.value] = Undefined]
                  /\ handler' =
                       [g \in HandlerIds |->
                          LET pushed == IF g = qi /\ handler[g].kind = "iterator"
                                        THEN Push(handler[g], StopFn)
                                        ELSE handler[g]
                          IN  IF pushed.token = t.value /\ pushed.api = "registered"
                              THEN [pushed EXCEPT !.api = "cancelled"]
                              ELSE pushed]
  /\ UNCHANGED <<sub, arrivals, outsideMux>>

\* lines 33-53: the subscription callback is called with a message on
\* <prefix>.<token>; it runs once the callbacks of settled promises have run
MsgArrives(t) ==
  /\ sub.state = "open"
  /\ Len(arrivals) < MaxArrivals
  /\ \A h \in HandlerIds : ~handler[h].closing
  /\ LET m == Len(arrivals) + 1
         token == Slice(MuxPrefix \o <<".">> \o t, Len(MuxPrefix) + 1)
         fn == handlers[token]
     IN  /\ arrivals' = Append(arrivals, [token |-> token, to |-> fn,
                                           registered |-> Registered(token)])
         /\ IF fn = Undefined
            THEN UNCHANGED handler
            ELSE IF handler[fn].kind = "callback"
            THEN handler' = [handler EXCEPT ![fn].routed = Append(@, m),
                                            ![fn].got = Append(@, m)]
            ELSE handler' = [handler EXCEPT
                               ![fn] = [Push(@, m) EXCEPT !.routed = Append(@, m)]]
  /\ UNCHANGED <<sub, handlers, outsideMux>>

\* drain, unsubscribe or an error ends the subscription: sub.closed
\* resolves, to the error if there was one
Close(err) ==
  /\ sub.state = "open"
  /\ sub' = [state |-> "closed", err |-> err, notified |-> FALSE]
  /\ UNCHANGED <<handlers, handler, arrivals, outsideMux>>

\* lines 56-64: the then-callback of sub.closed pushes a stop callback to
\* every iterator in handlers
ClosedThen ==
  /\ sub.state = "closed"
  /\ ~sub.notified
  /\ sub' = [sub EXCEPT !.notified = TRUE]
  /\ handler' =
       [h \in HandlerIds |->
          IF (\E t \in MuxTokens : handlers[t] = h) /\ handler[h].kind = "iterator"
          THEN Push(handler[h], IF sub.err THEN StopErrFn ELSE StopFn)
          ELSE handler[h]]
  /\ UNCHANGED <<handlers, arrivals, outsideMux>>

\* the consumer of an iterator takes what is next in its queue: a message
\* is yielded; a stop callback runs stop, which marks the iterator done and
\* resolves iterClosed; with an error the iteration throws at once
IterNext(h) ==
  /\ handler[h].kind = "iterator"
  /\ handler[h].yields # <<>>
  /\ LET qi == handler[h]
         v == Head(qi.yields)
         rest == [qi EXCEPT !.yields = Tail(@)]
     IN  handler' =
           [handler EXCEPT ![h] =
              IF v > 0 THEN [rest EXCEPT !.got = Append(@, v)]
              ELSE IF qi.done THEN rest
              ELSE [rest EXCEPT !.done = TRUE,
                                !.err = (v = StopErrFn),
                                !.closing = TRUE,
                                !.yields = IF v = StopErrFn THEN <<>> ELSE @,
                                !.api = IF @ = "registered" THEN "ended" ELSE @]]
  /\ UNCHANGED <<sub, handlers, arrivals, outsideMux>>

\* lines 134-136: the then-callback of iterClosed deletes the token the
\* iterator was registered for
IterClosedThen(h) ==
  /\ handler[h].closing
  /\ handlers' = [handlers EXCEPT ![handler[h].token] = Undefined]
  /\ handler' = [handler EXCEPT ![h].closing = FALSE]
  /\ UNCHANGED <<sub, arrivals, outsideMux>>

NextMux ==
  \/ \E subj \in MuxSubjects, kind \in {"callback", "iterator"} : NewMuxInbox(subj, kind)
  \/ \E subj \in MuxSubjects : CancelMuxInbox(subj)
  \/ \E t \in MuxTokens : MsgArrives(t)
  \/ \E err \in BOOLEAN : Close(err)
  \/ ClosedThen
  \/ \E h \in HandlerIds :
       \/ IterNext(h)
       \/ IterClosedThen(h)

\* a MuxSubscription, its callers, the messages arriving and the consumers
\* of its iterators
SpecMux == Init /\ [][NextMux]_vars

\* ------------------------------------------------------------------------
\* MuxSubscription: subject conversions on their own
\* ------------------------------------------------------------------------

\* every string of at most MaxSubjectLen characters
Strings == UNION {[1..n -> Chars] : n \in 0..MaxSubjectLen}

\* a caller converts one subject: subjectFor(p), then tokenFor and
\* subjectFor applied to what it returned
Convert ==
  /\ ~conv.done
  /\ \E p \in Strings :
       LET subject == subjectFor(p)
       IN  conv' = [arg |-> p, done |-> TRUE,
                    subject |-> subject,
                    token |-> IF subject.ok THEN tokenFor(subject.value) ELSE Throws,
                    again |-> IF subject.ok THEN subjectFor(subject.value) ELSE Throws]
  /\ UNCHANGED outsideSubjects

NextSubjects == Convert

SpecSubjects == Init /\ [][NextSubjects]_vars

\* ------------------------------------------------------------------------
\* Counters: the client's calls, the server answering them
\* ------------------------------------------------------------------------

\* calls are numbered in the order they are made
NextOp(k) ==
  /\ ops[k].pc = "idle"
  /\ \A j \in OpIds : j < k => ops[j].pc # "idle"

\* lines 327-332: increment(counter, n) publishes to the counter with the
\* header Nats-Incr set to n.toString()
Increment(k, counter, n) ==
  /\ NextOp(k)
  /\ ops' = [ops EXCEPT ![k] = [NoOp EXCEPT !.kind = "increment", !.pc = "sent",
                                           !.name = counter, !.n = n,
                                           !.header = toString(n)]]
  /\ UNCHANGED <<stream, outsideCounters>>

\* the server stores the message of a publish and answers with a PubAck
\* that carries the new value
ServerStores(k) ==
  /\ ops[k].kind = "increment"
  /\ ops[k].pc = "sent"
  /\ LET msg == StoredMsg(stream, ops[k].name, ops[k].header)
     IN  /\ stream' = Append(stream, msg)
         /\ ops' = [ops EXCEPT ![k].pc = "answered",
                                ![k].at = Len(stream) + 1,
                                ![k].reply = [DirectMsg(stream', Len(stream) + 1)
                                                EXCEPT !.incr = <<>>]]
  /\ UNCHANGED outsideCounters

\* increment resolving with the PubAck's val read without its sign
IncrementReturnsMagnitude(k) ==
  /\ ops[k].kind = "increment"
  /\ ops[k].pc = "answered"
  /\ ops' = [ops EXCEPT ![k].pc = "resolved",
                         ![k].result = [Null EXCEPT !.null = FALSE,
                                                    !.value = BigIntUnsigned(ops[k].reply.val)]]
  /\ UNCHANGED <<stream, outsideCounters>>

\* line 333: increment resolves with BigInt(pa.val)
IncrementReturns(k) ==
  /\ ops[k].kind = "increment"
  /\ ops[k].pc = "answered"
  /\ ops' = [ops EXCEPT ![k].pc = "resolved",
                         ![k].result = [Null EXCEPT !.null = FALSE,
                                                    !.value = BigInt(ops[k].reply.val)]]
  /\ UNCHANGED <<stream, outsideCounters>>

\* lines 336-343, 376-387: getCounter(counter, seq) and value(counter,
\* seq) send a direct get: { seq } when seq > 0, else { last_by_subj }
GetCounter(k, kind, counter, seq) ==
  /\ NextOp(k)
  /\ ops' = [ops EXCEPT ![k] =
               [NoOp EXCEPT !.kind = kind, !.pc = "sent", !.name = counter, !.seq = seq,
                            !.query = IF seq > 0
                                      THEN [NoQuery EXCEPT !.seq = seq]
                                      ELSE [NoQuery EXCEPT !.last_by_subj = counter]]]
  /\ UNCHANGED <<stream, outsideCounters>>

\* the server answers a direct get with the message of the sequence, or
\* the latest of the subject, with 404 when it has none, or with another
\* status
ServerGets(k) ==
  /\ ops[k].kind \in {"getCounter", "value"}
  /\ ops[k].pc = "sent"
  /\ LET q == ops[k].query
         i == IF q.seq > 0
              THEN (IF q.seq <= Len(stream) THEN q.seq ELSE 0)
              ELSE LastSeq(stream, q.last_by_subj)
     IN  \E r \in {IF i = 0 THEN StatusReply(NotFound) ELSE DirectMsg(stream, i),
                    StatusReply(ServerError)} :
           ops' = [ops EXCEPT ![k].pc = "answered", ![k].at = Len(stream),
                              ![k].reply = r]
  /\ UNCHANGED <<stream, outsideCounters>>

\* lines 389-398 and 337-342: null for a message-not-found status, a
\* rejection for another status, else the Counter of the message, of which
\* value keeps the value
GetReturns(k) ==
  /\ ops[k].kind \in {"getCounter", "value"}
  /\ ops[k].pc = "answered"
  /\ LET m == ops[k].reply
         c == IF m.code = NotFound THEN Null ELSE Counter(m)
     IN  IF m.code \notin {0, NotFound}
         THEN ops' = [ops EXCEPT ![k].pc = "rejected"]
         ELSE ops' = [ops EXCEPT ![k].pc = "resolved",
                                 ![k].result = IF ops[k].kind = "value"
                                               THEN ValueOnly(c) ELSE c]
  /\ UNCHANGED <<stream, outsideCounters>>

\* the numbers of a set in increasing order
RECURSIVE Ascending(_)
Ascending(S) ==
  IF S = {} THEN <<>>
  ELSE LET least == CHOOSE i \in S : \A j \in S : i <= j
       IN  <<least>> \o Ascending(S \ {least})

\* the sequences of the latest message of every subject a filter matches
MultiLast(had, filters) ==
  {i \in 1..Len(had) :
     /\ i = LastSeq(had, had[i].subject)
     /\ \E f \in filters : SubjectMatches(had[i].subject, f)}

\* lines 345-374, 401-430 and 523-624: values(counters) and
\* getCounters(counters) make an iterator, send a batch direct get with
\* multi_last and resolve with the iterator
Values(k, kind, counters) ==
  /\ NextOp(k)
  /\ ops' = [ops EXCEPT ![k] =
               [NoOp EXCEPT !.kind = kind, !.pc = "sent", !.names = counters,
                            !.query = [NoQuery EXCEPT !.multi_last = counters,
                                                      !.batch = DefaultBatch]]]
  /\ UNCHANGED <<stream, outsideCounters>>

\* the server answers a batch direct get with the latest message of every
\* matching subject, up to the batch size, and an end-of-batch status; when
\* nothing matches, with a 404 status or with the end-of-batch status alone
ServerGetsBatch(k) ==
  /\ ops[k].kind \in {"values", "getCounters"}
  /\ ops[k].pc = "sent"
  /\ LET all == Ascending(MultiLast(stream, ops[k].query.multi_last))
         seqs == IF Len(all) > ops[k].query.batch
                 THEN SubSeq(all, 1, ops[k].query.batch) ELSE all
         msgs == [j \in 1..Len(seqs) |-> DirectMsg(stream, seqs[j])]
     IN  \E last \in IF seqs = <<>> THEN {NotFound, EndOfBatch} ELSE {EndOfBatch} :
           ops' = [ops EXCEPT ![k].pc = "answered", ![k].at = Len(stream),
                              ![k].inbox = Append(msgs, StatusReply(last))]
  /\ UNCHANGED <<stream, outsideCounters>>

\* the callback pushing the message itself, whatever the call asked for
BatchItemWholeMsg(kind, m) == Item(Counter(m))

\* lines 363-364 and 419-420: what the callback pushes for a message
BatchItem(kind, m) ==
  Item(IF kind = "values" THEN ValueOnly(Counter(m)) ELSE Counter(m))

\* lines 573-606, 560-565, 356-365 and 412-421: the subscription callback
\* of getBatch is called with the next reply. A status stops getBatch's
\* own iterator, whose iterClosed callback calls the callback of values
\* with done, which pushes the stop, and unsubscribes; a message is handed
\* to the callback of values, which pushes its value or its Counter
BatchMsgArrives(k) ==
  /\ ops[k].pc = "answered"
  /\ ops[k].inbox # <<>>
  /\ LET m == Head(ops[k].inbox)
     IN  ops' = [ops EXCEPT ![k] =
                   IF m.code # 0
                   THEN [Push(@, StopItem(m.code # EndOfBatch)) EXCEPT !.inbox = <<>>]
                   ELSE [Push(@, BatchItem(@.kind, m)) EXCEPT !.inbox = Tail(@)]]
  /\ UNCHANGED <<stream, outsideCounters>>

\* the consumer of the iterator takes what is next: a value is yielded, a
\* stop callback ends the iteration, with the error it was given
CounterIterNext(k) ==
  /\ ops[k].kind \in {"values", "getCounters"}
  /\ ops[k].yields # <<>>
  /\ ~ops[k].done
  /\ LET v == Head(ops[k].yields)
     IN  ops' = [ops EXCEPT ![k] =
                   IF v.stop
                   THEN [@ EXCEPT !.done = TRUE, !.err = v.err, !.yields = Tail(@)]
                   ELSE [@ EXCEPT !.got = Append(@, v.v), !.yields = Tail(@)]]
  /\ UNCHANGED <<stream, outsideCounters>>

NextCounters ==
  \E k \in OpIds :
    \/ \E counter \in CounterNames, n \in Deltas : Increment(k, counter, n)
    \/ ServerStores(k)
    \/ IncrementReturns(k)
    \/ \E kind \in {"getCounter", "value"}, counter \in ReadNames, seq \in 0..(MaxOps - 1) :
         GetCounter(k, kind, counter, seq)
    \/ ServerGets(k)
    \/ GetReturns(k)

NextBatch ==
  \E k \in OpIds :
    \/ \E counter \in CounterNames, n \in Deltas : Increment(k, counter, n)
    \/ ServerStores(k)
    \/ IncrementReturns(k)
    \/ \E kind \in {"values", "getCounters"}, counters \in NameLists :
         Values(k, kind, counters)
    \/ ServerGetsBatch(k)
    \/ BatchMsgArrives(k)
    \/ CounterIterNext(k)

\* the server answers what it is sent, replies reach the client, and the
\* consumer of an iterator keeps taking from it
FairnessCounters ==
  \A k \in OpIds :
    /\ WF_vars(ServerGetsBatch(k))
    /\ WF_vars(BatchMsgArrives(k))
    /\ WF_vars(CounterIterNext(k))

\* a Counters client, callers incrementing and reading single counters,
\* and the server of its stream
SpecCounters == Init /\ [][NextCounters]_vars

\* a Counters client, callers incrementing counters and reading many at
\* once, and the server of its stream
SpecBatch == Init /\ [][NextBatch]_vars /\ FairnessCounters

\* ------------------------------------------------------------------------
\* Pipeline: the constructor, transform and the functions it awaits
\* ------------------------------------------------------------------------

\* the sequences of at most n functions
RECURSIVE FnLists(_)
FnLists(n) ==
  IF n = 0 THEN {<<>>}
  ELSE LET shorter == FnLists(n - 1)
       IN  shorter \cup {Append(l, fn) : l \in shorter, fn \in Fns}

\* lines 148-150: constructor(...pipeline)
NewPipeline(fns) ==
  /\ run.pc = "new"
  /\ pipeline' = fns
  /\ run' = [run EXCEPT !.pc = "idle"]
  /\ UNCHANGED outsidePipeline

\* lines 153-160: the loop with the local m being v and i functions
\* done: the next function is invoked with v and awaited, or, none
\* being left, transform resolves with v
Step(r, v) ==
  IF r.i < Len(pipeline)
  THEN [r EXCEPT !.pc = "calling", !.m = v, !.i = @ + 1,
                 !.calls = Append(@, [fn |-> pipeline[r.i + 1], arg |-> v])]
  ELSE [r EXCEPT !.pc = "resolved", !.m = v, !.result = v]

\* lines 152-160: transform(m) enters the loop with m
Transform(m) ==
  /\ run.pc \in {"idle", "resolved", "rejected"}
  /\ run' = Step([NoRun EXCEPT !.arg = m], m)
  /\ UNCHANGED <<pipeline, outsidePipeline>>

\* the awaited function returning out, the next function given the
\* message transform was called with
FnReturnsKeepingInput(out) ==
  /\ run.pc = "calling"
  /\ run' = Step([run EXCEPT !.outs = Append(@, out)],
                 IF run.i < Len(pipeline) THEN run.arg ELSE out)
  /\ UNCHANGED <<pipeline, outsidePipeline>>

\* line 155: m = await fn(m), the function returning out or a promise
\* that resolves with it
FnReturns(out) ==
  /\ run.pc = "calling"
  /\ run' = Step([run EXCEPT !.outs = Append(@, out)], out)
  /\ UNCHANGED <<pipeline, outsidePipeline>>

\* the awaited function failing with e, the failure swallowed and the
\* loop going on with the message the function was given
FnFailsSwallowed(e) ==
  /\ run.pc = "calling"
  /\ run' = Step([run EXCEPT !.thrown = e], run.m)
  /\ UNCHANGED <<pipeline, outsidePipeline>>

\* lines 154-158: the awaited function throws e, or returns a promise
\* that rejects with e: transform rejects with e
FnFails(e) ==
  /\ run.pc = "calling"
  /\ run' = [run EXCEPT !.pc = "rejected", !.thrown = e, !.err = e]
  /\ UNCHANGED <<pipeline, outsidePipeline>>

NextPipeline ==
  \/ \E fns \in FnLists(MaxFns) : NewPipeline(fns)
  \/ \E m \in Msgs : Transform(m)
  \/ \E out \in Msgs : FnReturns(out)
  \/ \E e \in Errs : FnFails(e)

\* a Pipeline, the caller of transform and the functions
SpecPipeline == Init /\ [][NextPipeline]_vars

\* ------------------------------------------------------------------------
\* SyncPipeline: the constructor and transform
\* ------------------------------------------------------------------------

\* what a function does when it is invoked: it returns a message or
\* throws an error
Outcomes == [throws : {FALSE}, v : Msgs] \cup [throws : {TRUE}, v : Errs]

\* one outcome for each of n functions
OutcomeLists(n) == [1..n -> Outcomes]

\* lines 130-132: constructor(...pipeline)
NewSyncPipeline(fns) ==
  /\ sync.pc = "new"
  /\ sync' = [sync EXCEPT !.pc = "idle", !.pipeline = fns]
  /\ UNCHANGED outsideSync

\* what a function threw leaving transform uncaught
CaughtRethrown(r, err) == [r EXCEPT !.pc = "threw", !.thrown = err]

\* lines 138-143: the catch returns { isError: true, error: err }
Caught(r, err) ==
  [r EXCEPT !.pc = "returned", !.thrown = err,
            !.ret = [isError |-> TRUE, value |-> "", error |-> err]]

\* lines 135-156: the loop from function i on with the local m, the
\* functions behaving as given: each is invoked with m and m becomes what
\* it returns; after the last, { isError: false, value: m } is returned
RECURSIVE SyncLoop(_, _, _, _)
SyncLoop(r, m, i, behaviours) ==
  IF i > Len(r.pipeline)
  THEN [r EXCEPT !.pc = "returned",
                 !.ret = [isError |-> FALSE, value |-> m, error |-> ""]]
  ELSE LET called == [r EXCEPT !.calls = Append(@, [fn |-> r.pipeline[i], arg |-> m])]
       IN  IF behaviours[i].throws
           THEN Caught(called, behaviours[i].v)
           ELSE SyncLoop([called EXCEPT !.outs = Append(@, behaviours[i].v)],
                         behaviours[i].v, i + 1, behaviours)

\* lines 134-157: transform(m), which runs to its end without a pause
SyncTransform(m) ==
  /\ sync.pc \in {"idle", "returned"}
  /\ \E behaviours \in OutcomeLists(Len(sync.pipeline)) :
       sync' = SyncLoop([NoSync EXCEPT !.pipeline = sync.pipeline, !.arg = m],
                        m, 1, behaviours)
  /\ UNCHANGED outsideSync

NextSync ==
  \/ \E fns \in FnLists(MaxFns) : NewSyncPipeline(fns)
  \/ \E m \in Msgs : SyncTransform(m)

\* a SyncPipeline, the caller of transform and the functions
SpecSync == Init /\ [][NextSync]_vars

\* ------------------------------------------------------------------------
\* MutableMsg: fromMsg, the setters, edits in place, respond
\* ------------------------------------------------------------------------

\* the messages a MutableMsg is made from: with or without a reply
\* subject, headers and publisher
SrcMsgs ==
  [subject : {"s"}, reply : {"", "r"}, sid : {1}, data : {"src.data"},
   headers : {NoRef, "src.headers"}, publisher : BOOLEAN]

\* what a message holds, as its reader sees it: the fields, with the
\* contents of the data and of the headers they refer to
Held(m, heap) ==
  [subject |-> m.subject, reply |-> m.reply, sid |-> m.sid,
   data |-> IF m.data = NoRef THEN "" ELSE heap[m.data],
   headers |-> IF m.headers = NoRef THEN "" ELSE heap[m.headers]]

\* new MutableMsg()
NewMutableMsg ==
  /\ mmsg.pc = "new"
  /\ mmsg' = [mmsg EXCEPT !.pc = "made"]
  /\ UNCHANGED outsideMsg

\* lines 49-59: fromMsg(src) copies subject, reply, data, sid, headers
\* and publisher of src into the fields of a new MutableMsg
FromMsg(src) ==
  /\ mmsg.pc = "new"
  /\ mmsg' = [mmsg EXCEPT !.pc = "made", !.src = src, !.mm = src,
                           !.orig = Held(src, mmsg.heap)]
  /\ UNCHANGED outsideMsg

\* lines 65-107: the setters of subject, reply, sid and publisher
SetField(field, v) ==
  /\ mmsg.pc = "made"
  /\ mmsg' = [mmsg EXCEPT !.mm[field] = v, !.changed = TRUE]
  /\ UNCHANGED outsideMsg

\* lines 65-67 and 97-99: the setters of data and headers, given a
\* buffer or headers the caller made
SetRef(field, ref, content) ==
  /\ mmsg.pc = "made"
  /\ mmsg' = [mmsg EXCEPT !.mm[field] = ref, !.heap[ref] = content, !.changed = TRUE]
  /\ UNCHANGED outsideMsg

\* lines 61-63 and 93-95: the getters of data and headers return the
\* object the field refers to, which the caller then edits in place
\* (mm.headers.set(k, v), mm.data[0] = b)
EditInPlace(field, content) ==
  /\ mmsg.pc = "made"
  /\ mmsg.mm[field] # NoRef
  /\ mmsg' = [mmsg EXCEPT !.heap[mmsg.mm[field]] = content, !.changed = TRUE]
  /\ UNCHANGED outsideMsg

\* respond without a publisher returning false, as Msg.respond does
RespondedOrFalse(w, op, payload, code) ==
  LET sofar == [op |-> op, publisher |-> w.mm.publisher, reply |-> w.mm.reply,
               before |-> Len(w.published), result |-> ""]
  IN  IF w.mm.publisher
      THEN [w EXCEPT !.published = Append(@, [subject |-> w.mm.reply,
                                              payload |-> payload, code |-> code]),
                     !.last = [sofar EXCEPT !.result = "true"]]
      ELSE [w EXCEPT !.last = [sofar EXCEPT !.result = "false"]]

\* lines 120-126: respond publishes to this.reply through the publisher
\* and returns true, or throws without a publisher
Responded(w, op, payload, code) ==
  LET sofar == [op |-> op, publisher |-> w.mm.publisher, reply |-> w.mm.reply,
               before |-> Len(w.published), result |-> ""]
  IN  IF w.mm.publisher
      THEN [w EXCEPT !.published = Append(@, [subject |-> w.mm.reply,
                                              payload |-> payload, code |-> code]),
                     !.last = [sofar EXCEPT !.result = "true"]]
      ELSE [w EXCEPT !.last = [sofar EXCEPT !.result = "publisher is not set"]]

\* lines 120-126: respond(payload)
MsgRespond(payload) ==
  /\ mmsg.pc = "made"
  /\ Len(mmsg.published) < MaxPublished
  /\ mmsg' = Responded(mmsg, "respond", payload, 0)
  /\ UNCHANGED outsideMsg

\* lines 109-118: respondError(code, description, data) sets the error
\* headers on the options and returns this.respond(data, opts)
MsgRespondError(code, data) ==
  /\ mmsg.pc = "made"
  /\ Len(mmsg.published) < MaxPublished
  /\ mmsg' = Responded(mmsg, "respondError", data, code)
  /\ UNCHANGED outsideMsg

NextMsg ==
  \/ NewMutableMsg
  \/ \E src \in SrcMsgs : FromMsg(src)
  \/ \E field \in {"subject", "reply"} : SetField(field, "t")
  \/ \E v \in BOOLEAN : SetField("publisher", v)
  \/ SetRef("data", "other.data", "b")
  \/ SetRef("headers", "other.headers", "b")
  \/ \E field \in {"data", "headers"} : EditInPlace(field, "c")
  \/ MsgRespond("p")
  \/ MsgRespondError(BadRequestCode, "p")

\* a MutableMsg, the message it was made from, and its user
SpecMsg == Init /\ [][NextMsg]_vars

\* ------------------------------------------------------------------------
\* KvWatcher: its EventSource, its callback, stop
\* ------------------------------------------------------------------------

Happens(w, what) == [w EXCEPT !.log = Append(@, what)]

\* kv.ts lines 467-469 and 494-497: watch() makes an EventSource and a
\* KvWatcher with a pending stopped promise
Watch ==
  /\ watch.pc = "new"
  /\ watch' = [watch EXCEPT !.pc = "watching", !.readyState = "open"]
  /\ UNCHANGED outsideWatch

\* kv.ts lines 499-501: the listener of "update" calls the callback with
\* the change; an EventSource dispatches events only while it is not
\* closed
UpdateEvent ==
  /\ watch.pc = "watching"
  /\ watch.readyState = "open"
  /\ Len(watch.log) < MaxEvents
  /\ watch' = Happens(watch, "update")
  /\ UNCHANGED outsideWatch

\* kv.ts lines 503-506: the listener of the event "closed" the gateway
\* sends calls the callback with the error and resolves stopped
ClosedEvent ==
  /\ watch.pc = "watching"
  /\ watch.readyState = "open"
  /\ Len(watch.log) < MaxEvents
  /\ watch' = [Happens(watch, "closed") EXCEPT !.stopped = TRUE]
  /\ UNCHANGED outsideWatch

\* the EventSource fails its connection: readyState becomes CLOSED and
\* an error event is fired, for which the watcher has no listener
SourceFails ==
  /\ watch.pc = "watching"
  /\ watch.readyState = "open"
  /\ Len(watch.log) < MaxEvents
  /\ watch' = [Happens(watch, "fail") EXCEPT !.readyState = "closed"]
  /\ UNCHANGED outsideWatch

\* kv.ts lines 508-514: stop() resolves stopped if the EventSource is
\* already closed, then closes it; EventSource.close() fires no event
Stop ==
  /\ watch.pc = "watching"
  /\ Len(watch.log) < MaxEvents
  /\ watch' = [Happens(watch, "stop") EXCEPT
                  !.stopped = @ \/ watch.readyState = "closed",
                  !.readyState = "closed"]
  /\ UNCHANGED outsideWatch

NextWatch ==
  \/ Watch
  \/ UpdateEvent
  \/ ClosedEvent
  \/ SourceFails
  \/ Stop

\* a KV watcher, the gateway's events and the caller
SpecWatch == Init /\ [][NextWatch]_vars

\* ------------------------------------------------------------------------
\* Kv.get: the request, the gateway's response, KvEntryImpl.parse
\* ------------------------------------------------------------------------

\* the responses of the gateway: OK with the value or its JSON form, not
\* found, and other failures, with or without the gateway's error header
Responses ==
  [status : {200, 400, NotFound, ServerError}, statusText : {"", "text"},
   gatewayError : {"", "gw"}, contentType : {"application/json", "binary"},
   body : {"v"}]

\* Response.ok: the status is in the range 200-299
Ok(r) == r.status \in 200..299

\* kv.ts lines 305-323: get(key, revision) fetches /v1/kv/<bucket>/<key>,
\* with ?revision=<revision> when revision > 0
Get(key, revision) ==
  /\ kv.pc = "new"
  /\ kv' = [kv EXCEPT !.pc = "fetching",
                       !.path = IF revision > 0 THEN <<key, "revision", revision>>
                                ELSE <<key>>]
  /\ UNCHANGED outsideKv

\* kv.ts line 320: fetch resolves with the gateway's Response
FetchResolves(r) ==
  /\ kv.pc = "fetching"
  /\ kv' = [kv EXCEPT !.pc = "fetched", !.response = r]
  /\ UNCHANGED outsideKv

\* kv.ts lines 320 and 326-328: fetch rejects, no Response at all, and
\* get rejects with the same error
FetchRejects ==
  /\ kv.pc = "fetching"
  /\ kv' = [kv EXCEPT !.pc = "rejected",
                       !.outcome = [NoOutcome EXCEPT !.kind = "error",
                                                     !.message = <<"fetch failed">>]]
  /\ UNCHANGED outsideKv

\* parse answering null for every response that is not OK
parseNullUnlessOk(r) ==
  IF ~Ok(r)
  THEN [NoOutcome EXCEPT !.kind = "null"]
  ELSE [NoOutcome EXCEPT !.kind = "entry", !.entry = r.body]

\* kv.ts lines 238-265: KvEntryImpl.parse(r): null for 404, an Error
\* "<status>: <reason>" for another status that is not OK, the reason
\* being the header x-nats-api-gateway-error or else the status text;
\* for an OK response the entry, read from the JSON or from the headers
\* and the body
parse(r) ==
  IF ~Ok(r)
  THEN IF r.status = NotFound
       THEN [NoOutcome EXCEPT !.kind = "null"]
       ELSE [NoOutcome EXCEPT
               !.kind = "error",
               !.message = <<r.status, ": ",
                             IF r.gatewayError # "" THEN r.gatewayError
                             ELSE r.statusText>>]
  ELSE [NoOutcome EXCEPT !.kind = "entry", !.entry = r.body]

\* kv.ts line 325: get returns KvEntryImpl.parse(v)
GetSettles ==
  /\ kv.pc = "fetched"
  /\ LET o == parse(kv.response)
     IN  kv' = [kv EXCEPT !.pc = IF o.kind = "error" THEN "rejected" ELSE "resolved",
                          !.outcome = o]
  /\ UNCHANGED outsideKv

NextKv ==
  \/ \E key \in {"a", "b"}, revision \in {0, 2} : Get(key, revision)
  \/ \E r \in Responses : FetchResolves(r)
  \/ FetchRejects
  \/ GetSettles

\* a call of Kv.get and the gateway answering it
SpecKv == Init /\ [][NextKv]_vars

\* ------------------------------------------------------------------------
\* Kvm.add: the caller's config object and the payload sent
\* ------------------------------------------------------------------------

\* the caller makes a config object with a ttl in milliseconds (0 for
\* none), or decides to pass no config
MakeConfig(given, ms) ==
  /\ kvm.pc = "new"
  /\ kvm' = [kvm EXCEPT !.pc = "idle", !.given = given,
                         !.ttl = Millis(ms), !.before = Millis(ms)]
  /\ UNCHANGED outsideKvm

\* kvm.ts lines 37-42: if (config && config.ttl) config.ttl =
\* config.ttl * 1_000_000; the payload is JSON.stringify(config), or
\* undefined without a config, and is posted
Added(w, bucket) ==
  LET ttl == IF w.given /\ w.ttl.ms # 0
             THEN [w.ttl EXCEPT !.scale = @ + 1]
             ELSE w.ttl
  IN  [w EXCEPT !.pc = "fetching", !.ttl = ttl,
                !.sent = Append(@, [bucket |-> bucket, payload |-> w.given, ttl |-> ttl])]

\* kvm.ts lines 37-42: add(bucket, config) up to the await of the fetch
Add(bucket) ==
  /\ kvm.pc = "idle"
  /\ Len(kvm.sent) < MaxAdds
  /\ kvm' = Added(kvm, bucket)
  /\ UNCHANGED outsideKvm

\* kvm.ts lines 43-47: the gateway answers; add rejects when the
\* response is not OK, else resolves with a Kv
AddSettles(ok) ==
  /\ kvm.pc = "fetching"
  /\ kvm' = [kvm EXCEPT !.pc = "idle",
                         !.ends = Append(@, IF ok THEN "resolved" ELSE "rejected")]
  /\ UNCHANGED outsideKvm

NextKvm ==
  \/ \E given \in BOOLEAN, ms \in {0, 1, 60000} : MakeConfig(given, ms)
  \/ \E bucket \in {"a", "b"} : Add(bucket)
  \/ \E ok \in BOOLEAN : AddSettles(ok)

\* a caller of Kvm.add, its config object and the gateway
SpecKvm == Init /\ [][NextKvm]_vars

\* ------------------------------------------------------------------------
\* Connection options: encode to a URL, parse from it
\* ------------------------------------------------------------------------

\* the port a scheme implies, which a URL does not keep in its host
DefaultPort(scheme) ==
  IF scheme = "wss" THEN "443" ELSE IF scheme = "ws" THEN "80" ELSE ""

\* lines 102-110: new URL(server), or new URL(`nats://${server}`) for a
\* server without one of the schemes nats, wss, ws
ServerUrl(s) ==
  LET scheme == IF s.scheme = "" THEN "nats" ELSE s.scheme
  IN  Url(scheme, Server("", s.name, IF s.port = DefaultPort(scheme) THEN "" ELSE s.port))

\* the setters of username and password percent-encode the characters
\* a URL does not allow in its userinfo
Userinfo(v) == IF v = "u@" THEN "u%40" ELSE v

\* encodeURIComponent and decodeURIComponent of a string taken whole
UriEncoded(v) == [uri |-> v]

UriDecoded(e) == e.uri

\* encodeURIComponent of a string of characters: a space becomes %20, a
\* percent sign %25
RECURSIVE encodeURIComponent(_)
encodeURIComponent(s) ==
  IF s = <<>> THEN <<>>
  ELSE (IF Head(s) = " " THEN <<"%", "2", "0">>
        ELSE IF Head(s) = "%" THEN <<"%", "2", "5">>
        ELSE <<Head(s)>>) \o encodeURIComponent(Tail(s))

\* the serialising of a query value in the text of the URL: a space
\* becomes +, a percent sign %25
RECURSIVE FormSerialized(_)
FormSerialized(s) ==
  IF s = <<>> THEN <<>>
  ELSE (IF Head(s) = " " THEN <<"+">>
        ELSE IF Head(s) = "%" THEN <<"%", "2", "5">>
        ELSE <<Head(s)>>) \o FormSerialized(Tail(s))

\* percent-decoding: %20 is a space, %25 a percent sign; a percent sign
\* not followed by two hex digits is kept
RECURSIVE PercentDecoded(_)
PercentDecoded(s) ==
  IF s = <<>> THEN <<>>
  ELSE IF Len(s) >= 3 /\ SubSeq(s, 1, 3) = <<"%", "2", "0">>
       THEN <<" ">> \o PercentDecoded(Slice(s, 3))
  ELSE IF Len(s) >= 3 /\ SubSeq(s, 1, 3) = <<"%", "2", "5">>
       THEN <<"%">> \o PercentDecoded(Slice(s, 3))
  ELSE <<Head(s)>> \o PercentDecoded(Tail(s))

\* the parsing of a query value from the text of the URL: + is a space,
\* then percent-decoding
FormParsed(s) ==
  PercentDecoded([j \in 1..Len(s) |-> IF s[j] = "+" THEN " " ELSE s[j]])

\* decodeURIComponent of a string of characters
decodeURIComponent(s) == PercentDecoded(s)

\* v.toString() of a number
NumToString(n) ==
  toString(n.i) \o (IF n.frac = <<>> THEN <<>> ELSE <<".">> \o n.frac)

\* parseInt(s): the digits s starts with, after a sign, as a number
parseInt(s) ==
  LET negative == s # <<>> /\ s[1] = "-"
      body == IF negative THEN Tail(s) ELSE s
      digits == {j \in 0..Len(body) :
                   \A k \in 1..j : \E d \in 1..10 : Digits[d] = body[k]}
      most == CHOOSE j \in digits : \A k \in digits : k <= j
      whole == ParseNat(SubSeq(body, 1, most))
  IN  Num(IF negative THEN -whole ELSE whole)

Appended(u, n, v) == [u EXCEPT !.params[n] = Append(@, v)]

\* lines 94-158: encode(opts): the first server, or nats://127.0.0.1:4222,
\* becomes the URL; user, pass and token its userinfo; the other servers,
\* the string, number and boolean properties its query; tls its protocol
encodeOptions(opts) ==
  LET list == IF opts.servers.set THEN opts.servers.v.list ELSE <<>>
      u0 == IF list # <<>> THEN ServerUrl(list[1])
            ELSE Url("nats", Server("", "127.0.0.1", "4222"))
      \* lines 112 and 131-140: opts.servers is what is left of the
      \* array, and [undefined] when servers was not set
      rest == IF list # <<>> THEN [j \in 1..(Len(list) - 1) |-> UriEncoded(list[j + 1])]
              ELSE IF opts.servers.set THEN <<>>
              ELSE <<UriEncoded("undefined")>>
      u1 == IF opts.user.set /\ opts.user.v # ""
            THEN [u0 EXCEPT !.username = Userinfo(opts.user.v)] ELSE u0
      u2 == IF opts.pass.set /\ opts.pass.v # ""
            THEN [u1 EXCEPT !.password = Userinfo(opts.pass.v)] ELSE u1
      u3 == IF opts.token.set /\ opts.token.v # ""
            THEN [u2 EXCEPT !.username = Userinfo(opts.token.v)] ELSE u2
      u4 == [u3 EXCEPT !.params["servers"] = rest]
      u5 == IF opts.name.set /\ opts.name.v # <<>>
            THEN Appended(u4, "name", FormSerialized(encodeURIComponent(opts.name.v)))
            ELSE u4
      u6 == IF opts.timeout.set
            THEN Appended(u5, "timeout", NumToString(opts.timeout.v)) ELSE u5
      u7 == IF opts.debug.set
            THEN Appended(u6, "debug", IF opts.debug.v THEN "true" ELSE "false") ELSE u6
      u8 == IF opts.handshakeFirst.set
            THEN Appended(u7, "handshakeFirst",
                          IF opts.handshakeFirst.v THEN "true" ELSE "false")
            ELSE u7
      tls == opts.tls.v
      u9 == [u8 EXCEPT !.protocol =
               IF tls.handshakeFirst.set /\ tls.handshakeFirst.v THEN "natss" ELSE "tls"]
      u10 == IF tls.cert.set /\ tls.cert.v # ""
             THEN Appended(u9, "cert", UriEncoded(tls.cert.v)) ELSE u9
  IN  IF ~opts.tls.set THEN Returns(u8)
      ELSE IF u8.protocol # "nats" THEN Throws
      ELSE Returns(u10)

\* searchParams.get(n): the first value of the parameter, or null
Got(u, n) == IF u.params[n] = <<>> THEN Unset("") ELSE Given(u.params[n][1])

\* lines 164-171: configBooleanFn
configBoolean(u, n) ==
  IF Got(u, n).set /\ Got(u, n).v # "" THEN Given(Got(u, n).v = "true") ELSE Unset(FALSE)

\* lines 184-191: configStringFn, on a string of characters
configStringKeepingEscapes(u, n) ==
  LET v == IF Got(u, n).set THEN FormParsed(Got(u, n).v) ELSE <<>>
  IN  IF v # <<>> THEN Given(v) ELSE Unset(<<>>)

configString(u, n) ==
  LET v == IF Got(u, n).set THEN FormParsed(Got(u, n).v) ELSE <<>>
  IN  IF v # <<>> THEN Given(decodeURIComponent(v)) ELSE Unset(<<>>)

\* lines 173-182: configNumberFn
configNumber(u, n) ==
  IF Got(u, n).set /\ Got(u, n).v # <<>> THEN Given(parseInt(Got(u, n).v)) ELSE Unset(Num(0))

\* lines 207-263: parse(str) of a string encode returned: the host, with
\* the protocol unless that is nats or natss, is the first server; the
\* userinfo is the token, or the user and pass; the query gives the rest
parseOptions(u) ==
  LET first == IF u.protocol \in {"nats", "natss"} THEN u.host
               ELSE Server(u.protocol, u.host.name, u.host.port)
      others == [j \in 1..Len(u.params["servers"]) |-> UriDecoded(u.params["servers"][j])]
      tls0 == IF u.protocol = "natss"
              THEN [EmptyTls EXCEPT !.handshakeFirst = Given(TRUE)] ELSE EmptyTls
      hf == configBoolean(u, "handshakeFirst")
      tls1 == IF hf.set THEN [tls0 EXCEPT !.handshakeFirst = hf] ELSE tls0
      tls == IF u.params["cert"] # <<>>
             THEN [tls1 EXCEPT !.cert = Given(UriDecoded(u.params["cert"][1]))] ELSE tls1
  IN  [servers |-> Given(ServerArray(<<first>> \o others)),
       user |-> IF u.username # "" /\ u.password # "" THEN Given(u.username) ELSE Unset(""),
       pass |-> IF u.password # "" THEN Given(u.password) ELSE Unset(""),
       token |-> IF u.username # "" /\ u.password = "" THEN Given(u.username) ELSE Unset(""),
       name |-> configString(u, "name"),
       timeout |-> configNumber(u, "timeout"),
       debug |-> configBoolean(u, "debug"),
       handshakeFirst |-> hf,
       tls |-> IF tls.handshakeFirst.set \/ tls.cert.set THEN Given(tls) ELSE Unset(EmptyTls)]

\* the servers, names and numbers the options are built from
LocalServer == Server("", "h", "1")

NatsServer == Server("nats", "h", "1")

WssServer == Server("wss", "h", "8443")

WssDefaultPort == Server("wss", "h", "443")

ServerLists ==
  {<<>>, <<LocalServer>>, <<NatsServer>>, <<WssServer>>, <<WssDefaultPort>>,
   <<LocalServer, NatsServer>>, <<WssServer, LocalServer>>}

NameChars == {"a", " ", "%"}

Names == UNION {[1..n -> NameChars] : n \in 0..MaxNameLen}

Timeouts == {Num(0), Num(10000), [i |-> 1, frac |-> <<"5">>]}

TlsOptions ==
  {[handshakeFirst |-> h, cert |-> c] :
     h \in {Unset(FALSE), Given(TRUE)}, c \in {Unset(""), Given("c")}}

OptionsObjects ==
  [servers : {Unset(ServerArray(<<>>)), Given(OneServer(LocalServer))}
               \cup {Given(ServerArray(l)) : l \in ServerLists},
   user : {Unset(""), Given("u"), Given("u@")},
   pass : {Unset(""), Given("p")},
   token : {Unset(""), Given("t")},
   name : {Unset(<<>>)} \cup {Given(n) : n \in Names},
   timeout : {Unset(Num(0))} \cup {Given(t) : t \in Timeouts},
   debug : {Unset(FALSE), Given(FALSE)},
   handshakeFirst : {Unset(FALSE), Given(TRUE)},
   tls : {Unset(EmptyTls)} \cup {Given(t) : t \in TlsOptions}]

\* the caller builds an options object
MakeOptions ==
  /\ copts.pc = "new"
  /\ \E o \in OptionsObjects : copts' = [copts EXCEPT !.pc = "made", !.opts = o]
  /\ UNCHANGED outsideOptions

\* encode(opts)
Encode ==
  /\ copts.pc = "made"
  /\ LET r == encodeOptions(copts.opts)
     IN  copts' = IF r.ok THEN [copts EXCEPT !.pc = "encoded", !.encoded = r.value]
                  ELSE [copts EXCEPT !.pc = "encoded", !.threw = TRUE]
  /\ UNCHANGED outsideOptions

\* parse(str) of the string encode returned
Parse ==
  /\ copts.pc = "encoded"
  /\ ~copts.threw
  /\ copts' = [copts EXCEPT !.pc = "parsed", !.parsed = parseOptions(copts.encoded)]
  /\ UNCHANGED outsideOptions

NextOptions ==
  \/ MakeOptions
  \/ Encode
  \/ Parse

SpecOptions == Init /\ [][NextOptions]_vars

\* ------------------------------------------------------------------------
\* getBatch with a callback
\* ------------------------------------------------------------------------

\* a reply on the inbox: a status (code not 0), or a message with or
\* without the Nats-Num-Pending header
BatchReply(code, pending) == [code |-> code, pending |-> pending]

BatchReplies ==
  {BatchReply(0, TRUE), BatchReply(0, FALSE),
   BatchReply(EndOfBatch, FALSE), BatchReply(NotFound, FALSE)}

\* the second argument of push: the n-th reply, or a function stopping
\* the iterator; {} as Msg is message 0
TheMsg(n) == [fn |-> FALSE, err |-> FALSE, msg |-> n]

Stopper(err) == [fn |-> TRUE, err |-> err, msg |-> 0]

\* QueuedIteratorImpl.stop(err): once; resolves iterClosed with err
IterStop(g, err) ==
  IF g.done THEN g ELSE [g EXCEPT !.done = TRUE, !.err = err, !.closing = TRUE]

\* pushCb calling the callback for a function as well
pushCbSignallingTwice(g, done, m) ==
  IF m.fn
  THEN [IterStop(g, m.err) EXCEPT !.calls = Append(@, [done |-> done, m |-> 0])]
  ELSE [g EXCEPT !.calls = Append(@, [done |-> done, m |-> m.msg])]

\* lines 548-558: pushCb(done, m) calls a function, and the callback with
\* anything else
pushCb(g, done, m) ==
  IF m.fn THEN IterStop(g, m.err)
  ELSE [g EXCEPT !.calls = Append(@, [done |-> done, m |-> m.msg])]

\* lines 523-532, 567-572 and 620-623: getBatch subscribes to an inbox and
\* publishes the request
GetBatch ==
  /\ gb.pc = "new"
  /\ gb' = [gb EXCEPT !.pc = "open", !.subscribed = TRUE]
  /\ UNCHANGED outsideBatch

\* lines 573-606: the subscription callback is called with a reply
ReplyArrives(r) ==
  /\ gb.subscribed
  /\ Len(gb.arrived) < MaxReplies
  /\ LET n == Len(gb.arrived) + 1
         g0 == [gb EXCEPT !.arrived = Append(@, r)]
         g1 == IF g0.batchSupported THEN g0
               ELSE IF ~r.pending
               THEN pushCb([g0 EXCEPT !.subscribed = FALSE], "ok", Stopper(FALSE))
               ELSE [g0 EXCEPT !.batchSupported = TRUE]
     IN  gb' = IF r.code = EndOfBatch THEN pushCb(g0, "ok", Stopper(FALSE))
               ELSE IF r.code # 0 THEN pushCb(g0, "err", Stopper(TRUE))
               ELSE pushCb(g1, "null", TheMsg(n))
  /\ UNCHANGED outsideBatch

\* lines 574-578: the subscription callback is called with an error
SubscriptionError ==
  /\ gb.subscribed
  /\ gb' = [IterStop(gb, TRUE) EXCEPT !.subscribed = FALSE]
  /\ UNCHANGED outsideBatch

\* lines 560-565: the then-callback of iterClosed calls the callback with
\* the completion and unsubscribes
BatchClosedThen ==
  /\ gb.closing
  /\ gb' = [pushCb([gb EXCEPT !.closing = FALSE],
                   IF gb.err THEN "err" ELSE "ok", TheMsg(0))
              EXCEPT !.subscribed = FALSE]
  /\ UNCHANGED outsideBatch

NextGetBatch ==
  \/ GetBatch
  \/ \E r \in BatchReplies : ReplyArrives(r)
  \/ SubscriptionError
  \/ BatchClosedThen

\* one getBatch call with a callback, the replies of the server and the
\* errors of the subscription
SpecGetBatch == Init /\ [][NextGetBatch]_vars

\* ------------------------------------------------------------------------
\* Vocabulary of the properties
\* ------------------------------------------------------------------------

HasKey == tc.encryptionKey # NoKey

Started(c) == call[c].pc # "idle"

\* process has settled: it rejected or resolved (and may have been replied to)
Failed(c) ==
  \/ call[c].pc = "rejected"
  \/ call[c].pc = "replied" /\ reply[c].kind = "respondError"

Returned(c) ==
  \/ call[c].pc = "resolved"
  \/ call[c].pc = "replied" /\ reply[c].kind = "respond"

InTrace(c, op) == \E i \in 1..Len(call[c].trace) : call[c].trace[i] = op

\* the values the request's headers carry under Nats-Server-Xkey
XkeyHeaderValues(h) ==
  IF h.defined THEN {p[2] : p \in {q \in h.kv : q[1] = NatsServerXkeyHeader}} ELSE {}

\* the bytes of the payload begin with "eyJ0"
BeginsWithJwtPrefix(data) ==
  /\ data.len >= Len(JwtPrefix)
  /\ SubSeq(data.head, 1, Len(JwtPrefix)) = JwtPrefix

\* no document, decision or request exists for the call
NothingProduced(c) ==
  /\ ~InTrace(c, "authorize")
  /\ req[c] = NoRequest
  /\ cr[c] = NoDecision
  /\ result[c] = NoResult
  /\ reply[c].kind # "respond"
  /\ reply[c].data = NoResult

\* ------------------------------------------------------------------------
\* Properties
\* ------------------------------------------------------------------------

\* C1: when the handler's encryption requirement and the classification of
\* the payload disagree, in either direction, process rejects with the
\* configuration-mismatch error of that direction right after the prefix
\* check: nothing was opened or decoded and the Authorizer was not called.
C1_MismatchRejected ==
  \A c \in CallIds :
    (Started(c) /\ HasKey # call[c].isEncrypted) =>
      /\ Failed(c)
      /\ call[c].err = (IF HasKey THEN MismatchServiceRequires
                                  ELSE MismatchServerRequires)
      /\ call[c].trace = <<"classify">>
      /\ NothingProduced(c)

\* a handler without an encryption key has answered an encrypted payload
C1_Witness ==
  \E c \in CallIds :
    /\ ~HasKey
    /\ call[c].isEncrypted
    /\ input[c].data.sealedBy = "X2"
    /\ call[c].pc = "replied"
    /\ reply[c].message = MismatchServerRequires.message

\* the claims document a request carries, in the clear or inside the box
DocumentOf(c) == input[c].data.token

WellFormedRequest(c) ==
  /\ input[c].data.kind = "jwt"
  /\ DocumentOf(c).aud = ExpectedAudience
  /\ DocumentOf(c).hasNats
  /\ KeyType(DocumentOf(c).nats.server_id.id) = "N"

\* C2: the Authorizer is invoked only with the embedded request of a
\* document whose audience is "nats-authorization-request" and whose
\* server_id is a server key; a request violating any of these is rejected
\* and the Authorizer is not invoked for it.
C2_AuthorizerSeesVerifiedRequests ==
  \A c \in CallIds :
    /\ InTrace(c, "authorize") =>
         /\ WellFormedRequest(c)
         /\ req[c] = DocumentOf(c).nats
    /\ (Started(c) /\ ~WellFormedRequest(c)) =>
         /\ ~InTrace(c, "authorize")
         /\ call[c].pc \in {"awaitDecode", "rejected", "replied"}
         /\ call[c].pc = "replied" => reply[c].kind = "respondError"

\* a request with another audience was answered with the bad-request error
\* while a well-formed one reached the Authorizer
C2_Witness ==
  \E c, d \in CallIds :
    /\ input[c].data.kind = "jwt"
    /\ DocumentOf(c).aud = "something-else"
    /\ call[c].pc = "replied"
    /\ reply[c].code = BadRequestCode
    /\ InTrace(d, "authorize")

\* C3: with an encryption key, a request that was opened and decoded and
\* whose server_id.xkey differs from the key of the header it was opened
\* with is rejected: no Authorizer call, no response document.
C3_RelayedRequestRejected ==
  \A c \in CallIds :
    (/\ HasKey
     /\ InTrace(c, "decode")
     /\ call[c].decoded.ok
     /\ call[c].decoded.req.server_id.xkey # call[c].serverKey
     /\ call[c].pc # "awaitDecode") =>
      /\ Failed(c)
      /\ call[c].err = XkeyMismatchError
      /\ NothingProduced(c)

\* a request of server X2 relayed in a box of X3 was answered with an error
C3_Witness ==
  \E c \in CallIds :
    /\ HasKey
    /\ input[c].data.sealedBy = "X3"
    /\ DocumentOf(c).nats.server_id.xkey = "X2"
    /\ call[c].pc = "replied"
    /\ reply[c].message = XkeyMismatchError.message

\* C4: with an encryption key, the response is sealed by the handler's key
\* for the key of the request's header, which is the key the request was
\* opened with; the counterpart opens it naming the handler's key, and no
\* other pair of keys does.
C4_ResponseSealedForCounterpart ==
  \A c \in CallIds :
    (HasKey /\ Returned(c)) =>
      /\ result[c].sealedBy = tc.encryptionKey.pub
      /\ XkeyHeaderValues(input[c].headers) = {result[c].sealedFor}
      /\ result[c].sealedFor = input[c].data.sealedBy
      /\ \A me, sender \in CurveKeys :
           BoxOpens(result[c].sealedBy, result[c].sealedFor, me, sender) <=>
             (me = input[c].data.sealedBy /\ sender = tc.encryptionKey.pub)

\* the response to a request sealed by X3 has been sent
C4_Witness ==
  \E c \in CallIds :
    /\ HasKey
    /\ input[c].data.sealedBy = "X3"
    /\ call[c].pc = "replied"
    /\ reply[c].kind = "respond"
    /\ reply[c].data.sealedFor = "X3"

\* C5 as stated: every non-empty payload, of any length, is classified as
\* encrypted exactly when its bytes do not begin with "eyJ0".
C5_Original ==
  \A c \in CallIds :
    (Started(c) /\ input[c].data.len > 0) =>
      (call[c].isEncrypted <=> ~BeginsWithJwtPrefix(input[c].data))

\* C5 amended: a payload longer than four bytes is classified as encrypted
\* exactly when its bytes do not begin with "eyJ0"; a payload of four bytes
\* or fewer is always classified as plaintext; the classification is the
\* first thing process does, before any open or decode.
C5_ClassifiedByPrefixWhenLonger ==
  \A c \in CallIds :
    Started(c) =>
      /\ input[c].data.len > PrefixLen =>
           (call[c].isEncrypted <=> ~BeginsWithJwtPrefix(input[c].data))
      /\ input[c].data.len <= PrefixLen => ~call[c].isEncrypted
      /\ Head(call[c].trace) = "classify"
      /\ \A i \in 2..Len(call[c].trace) : call[c].trace[i] # "classify"

\* a four-byte payload that is not "eyJ0" was taken as plaintext and decoded
C5_Witness ==
  \E c \in CallIds :
    /\ input[c].data.len = PrefixLen
    /\ ~BeginsWithJwtPrefix(input[c].data)
    /\ ~call[c].isEncrypted
    /\ InTrace(c, "decode")

\* C6: with an encryption key, a request without the Nats-Server-Xkey header
\* (or without headers) fails: the Authorizer is never invoked and no
\* response is returned.
C6_MissingHeaderFails ==
  \A c \in CallIds :
    (HasKey /\ Started(c) /\ XkeyHeaderValues(input[c].headers) = {}) =>
      /\ Failed(c)
      /\ NothingProduced(c)

\* a correctly sealed request was delivered with headers that lack the key
\* and was answered with an error
C6_Witness ==
  \E c \in CallIds :
    /\ HasKey
    /\ input[c].headers = HOther
    /\ input[c].data.sealedBy = "X2"
    /\ input[c].data.sealedFor = tc.encryptionKey.pub
    /\ WellFormedRequest(c)
    /\ InTrace(c, "open")
    /\ call[c].pc = "replied"

\* open was called and the box does not open for the handler's key and the
\* key of the header
OpenFailed(c) ==
  /\ HasKey
  /\ InTrace(c, "open")
  /\ ~BoxOpens(input[c].data.sealedBy, input[c].data.sealedFor,
               tc.encryptionKey.pub, call[c].serverKey)

\* C7: when open fails, process rejects with a decryption error that is not
\* the bad-request error, having decoded nothing, without invoking the
\* Authorizer and without returning any part of the payload.
C7_OpenFailureRejected ==
  \A c \in CallIds :
    OpenFailed(c) =>
      /\ Failed(c)
      /\ call[c].err \in {DecryptError, NKeysError}
      /\ ~call[c].err.service
      /\ call[c].err # BadRequest
      /\ call[c].trace = <<"classify", "open">>
      /\ call[c].decoded = NotDecoded
      /\ NothingProduced(c)
      /\ call[c].pc = "replied" => reply[c].code # BadRequestCode

\* a request sealed by X2 and presented under the header of X3 was answered
\* with "failed to decrypt message"
C7_Witness ==
  \E c \in CallIds :
    /\ OpenFailed(c)
    /\ input[c].data.sealedBy = "X2"
    /\ call[c].serverKey = "X3"
    /\ call[c].pc = "replied"
    /\ reply[c].message = DecryptError.message

\* authorize returned a decision for the call
Decided(c) == InTrace(c, "encode")

\* the document process builds for the call's request and decision
SignedDocOf(c) ==
  [sub |-> req[c].user_nkey, aud |-> req[c].server_id.id,
   iss |-> tc.authorizationResponseSigner.pub,
   signedBy |-> tc.authorizationResponseSigner.pub,
   jwt |-> cr[c].jwt, error |-> cr[c].error]

\* C8: when the Authorizer returns a decision with error set, process still
\* resolves with a signed (and, with an encryption key, sealed) document
\* that carries the error, and the endpoint sends it with respond, never
\* with respondError.
C8_RejectionIsSignedReply ==
  \A c \in CallIds :
    (Decided(c) /\ cr[c].error # "") =>
      /\ ~Failed(c)
      /\ call[c].pc \in {"encoding", "resolved", "replied"}
      /\ call[c].pc # "encoding" =>
           /\ result[c].doc = SignedDocOf(c)
           /\ result[c].doc.error = cr[c].error
           /\ (result[c].sealedBy # "") <=> HasKey
      /\ call[c].pc = "replied" =>
           /\ reply[c].kind = "respond"
           /\ reply[c].data = result[c]

\* a rejection by the Authorizer was sent as a sealed reply
C8_Witness ==
  \E c \in CallIds :
    /\ HasKey
    /\ cr[c].error = "E1"
    /\ call[c].pc = "replied"
    /\ reply[c].kind = "respond"
    /\ reply[c].data.doc.error = "E1"

\* authorize threw or rejected for the call
AuthorizerFault(c) ==
  /\ call[c].trace # <<>>
  /\ call[c].trace[Len(call[c].trace)] = "authorize"
  /\ call[c].pc \in {"rejected", "replied"}

\* the errors process itself rejects with
ProtocolErrors ==
  {MismatchServiceRequires, MismatchServerRequires, DecryptError, NKeysError,
   JwtDecodeError, BadRequest, CheckKeyError, XkeyMismatchError}

\* how an error is reported: the reply's numeric code and fixed description
ReplyKind(r) == <<r.kind, r.code, r.description>>

\* C9 as stated: a fault of the Authorizer is surfaced as a kind of its own,
\* not reported the same way as a protocol error.
C9_Original ==
  \A c \in CallIds :
    (AuthorizerFault(c) /\ call[c].pc = "replied") =>
      /\ result[c] = NoResult
      /\ ReplyKind(reply[c]) \notin {ReplyKind(ErrorReply(e)) : e \in ProtocolErrors}

\* C9 amended: if authorize throws or rejects, process rejects with that
\* same error, unwrapped, without producing a response document; the
\* endpoint reports it as it reports every rejection: respondError with the
\* error's own code when it is a ServiceError and 400 otherwise, the fixed
\* description and the error's message. It differs from a policy rejection,
\* which is sent with respond.
C9_AuthorizerFaultPropagates ==
  \A c \in CallIds :
    AuthorizerFault(c) =>
      /\ call[c].err \in AuthorizerThrows
      /\ cr[c] = NoDecision
      /\ result[c] = NoResult
      /\ call[c].pc = "replied" =>
           /\ reply[c].kind = "respondError"
           /\ reply[c].data = NoResult
           /\ reply[c].code = (IF call[c].err.service THEN call[c].err.code
                                                      ELSE DefaultErrorCode)
           /\ reply[c].description = "error processing request"
           /\ reply[c].message = call[c].err.message

\* an Authorizer that threw a ServiceError was answered with its code
C9_Witness ==
  \E c \in CallIds :
    /\ AuthorizerFault(c)
    /\ call[c].err = BadRequest
    /\ call[c].pc = "replied"
    /\ reply[c].code = BadRequestCode

\* a well-formed request in the clear
ValidPlaintextRequest(c) ==
  /\ WellFormedRequest(c)
  /\ input[c].data.sealedBy = ""

\* C10: without an encryption key, every valid plaintext request for which
\* the Authorizer returns a decision is answered with the signed document,
\* not sealed, whose payload is exactly that decision (its jwt is the token
\* the Authorizer returned).
C10_PlaintextResponseCarriesDecision ==
  \A c \in CallIds :
    (~HasKey /\ Started(c) /\ ValidPlaintextRequest(c)) =>
      /\ Failed(c) => AuthorizerFault(c)
      /\ Returned(c) =>
           /\ result[c].sealedBy = ""
           /\ result[c].sealedFor = ""
           /\ result[c].doc.signedBy = tc.authorizationResponseSigner.pub
           /\ result[c].doc.jwt = cr[c].jwt
           /\ result[c].doc.error = cr[c].error
           /\ ~InTrace(c, "seal")
      /\ call[c].pc = "replied" /\ Decided(c) => reply[c] = RespondReply(EncodeDoc(SignedDocOf(c)))

\* the token T1 issued by the Authorizer was sent in a plaintext reply
C10_Witness ==
  \E c \in CallIds :
    /\ ~HasKey
    /\ ValidPlaintextRequest(c)
    /\ cr[c].jwt = "T1"
    /\ call[c].pc = "replied"
    /\ reply[c].kind = "respond"
    /\ reply[c].data.sealedBy = ""
    /\ reply[c].data.doc.jwt = "T1"

\* the keys a request names: its server, the server's encryption key, the
\* user, and the key of its header
KeysOfRequest(c) ==
  {DocumentOf(c).nats.server_id.id, DocumentOf(c).nats.server_id.xkey,
   DocumentOf(c).nats.user_nkey, input[c].data.sealedBy, input[c].data.sealedFor}
    \cup XkeyHeaderValues(input[c].headers)

\* C11: every response document is addressed to the user_nkey (subject) and
\* the server_id.id (audience) of the request it answers and is issued and
\* signed by the signing key given to the constructor; the signing key is
\* never a value taken from the request.
C11_ResponseAddressedAndSigned ==
  \A c \in CallIds :
    Returned(c) =>
      /\ result[c].doc.sub = DocumentOf(c).nats.user_nkey
      /\ result[c].doc.aud = DocumentOf(c).nats.server_id.id
      /\ result[c].doc.signedBy = args.authAccountKey.pub
      /\ result[c].doc.iss = args.authAccountKey.pub
      /\ KeyType(result[c].doc.signedBy) = "A"
      /\ result[c].doc.signedBy \notin KeysOfRequest(c)

\* the request of user U2 at server N2 was answered with a document for
\* them signed by A1
C11_Witness ==
  \E c \in CallIds :
    /\ call[c].pc = "replied"
    /\ reply[c].kind = "respond"
    /\ DocumentOf(c).nats = Req2
    /\ reply[c].data.doc.sub = "U2"
    /\ reply[c].data.doc.aud = "N2"
    /\ reply[c].data.doc.signedBy = "A1"

\* how many times the call invoked authorize
AuthorizeCalls(c) == Len(SelectSeq(call[c].trace, LAMBDA op : op = "authorize"))

\* what process does on a request before it may call authorize
StepsBeforeAuthorize ==
  IF HasKey THEN <<"classify", "open", "decode">> ELSE <<"classify", "decode">>

\* C12: a call of process invokes the Authorizer at most once, exactly once
\* when it returns a response, and only after the mismatch check, the
\* opening of the payload, decode and the server key check have succeeded.
C12_AuthorizeAtMostOnceAfterChecks ==
  \A c \in CallIds :
    /\ AuthorizeCalls(c) <= 1
    /\ Returned(c) => AuthorizeCalls(c) = 1
    /\ AuthorizeCalls(c) >= 1 =>
         /\ SubSeq(call[c].trace, 1, Len(StepsBeforeAuthorize)) = StepsBeforeAuthorize
         /\ call[c].trace[Len(StepsBeforeAuthorize) + 1] = "authorize"
         /\ call[c].isEncrypted = HasKey
         /\ HasKey => BoxOpens(input[c].data.sealedBy, input[c].data.sealedFor,
                               tc.encryptionKey.pub, call[c].serverKey)
         /\ call[c].decoded.ok
         /\ WellFormedRequest(c)
         /\ HasKey => call[c].decoded.req.server_id.xkey = call[c].serverKey

\* a sealed request was answered after a single call of authorize while
\* an Authorizer fault ended another call
C12_Witness ==
  \E c, d \in CallIds :
    /\ HasKey
    /\ call[c].pc = "replied"
    /\ reply[c].kind = "respond"
    /\ AuthorizeCalls(c) = 1
    /\ call[d].pc = "replied"
    /\ AuthorizerFault(d)
    /\ AuthorizeCalls(d) = 1

\* the response a call returns when it runs alone: a function of its own
\* request, the decision for it and the keys given to the constructor
SoloResult(c) ==
  [sealedBy |-> IF args.encryptionKey # NoKey THEN args.encryptionKey.pub ELSE "",
   sealedFor |-> IF args.encryptionKey # NoKey THEN input[c].data.sealedBy ELSE "",
   doc |-> [sub |-> DocumentOf(c).nats.user_nkey,
            aud |-> DocumentOf(c).nats.server_id.id,
            iss |-> args.authAccountKey.pub,
            signedBy |-> args.authAccountKey.pub,
            jwt |-> cr[c].jwt, error |-> cr[c].error]]

\* the errors a call can reject with when it runs alone, the Authorizer
\* aside: those of the steps of process on its own data and headers
SoloErrors(c) ==
  LET S == ProcessSync(tc, input[c].data, input[c].headers)
  IN  {s.err : s \in {t \in S : t.pc = "rejected"}}
        \cup {s.decoded.err : s \in {t \in S : t.pc = "awaitDecode" /\ ~t.decoded.ok}}
        \cup {XkeyMismatchError : s \in {t \in S : t.pc = "awaitDecode" /\ t.decoded.ok}}

\* C13: whatever other calls are in flight, the outcome of a call is the
\* one it has when run alone: its response answers its own request's user
\* and server with its own decision and, with an encryption key, is sealed
\* for the key of its own header, never for the key of another request.
C13_CallsAreIndependent ==
  \A c \in CallIds :
    /\ Returned(c) =>
         /\ result[c] = SoloResult(c)
         /\ call[c].pc = "replied" => reply[c].data = SoloResult(c)
         /\ \A d \in CallIds :
              (HasKey /\ Started(d) /\ call[d].serverKey # call[c].serverKey)
                => result[c].sealedFor # call[d].serverKey
    /\ (Failed(c) /\ ~AuthorizerFault(c)) => call[c].err \in SoloErrors(c)
    /\ call[c].pc = "authorizing" => req[c] = DocumentOf(c).nats

\* the response to the request of X3 has been sent while the request of X2,
\* delivered before it, still waits for the Authorizer
C13_Witness ==
  \E c, d \in CallIds :
    /\ d < c
    /\ call[d].pc = "authorizing"
    /\ call[d].serverKey = "X2"
    /\ call[c].pc = "replied"
    /\ reply[c].kind = "respond"
    /\ call[c].serverKey = "X3"
    /\ reply[c].data.sealedFor = "X3"
    /\ reply[c].data.doc.sub = "U2"

\* the handler the constructor builds from its arguments
HandlerOf(a) ==
  [state |-> "ok", authorizer |-> a.authorizer,
   authorizationResponseSigner |-> a.authAccountKey,
   encryptionKey |-> a.encryptionKey]

\* C14: process never changes the handler: whatever calls have run, succeeded
\* or failed, its authorizer, signing key and encryption key are those the
\* constructor was given, and it has no other field: nothing of a request
\* (server key, decoded request, decision) is kept on it.
C14_HandlerUnchangedByProcess ==
  tc.state = "ok" =>
    /\ tc = HandlerOf(args)
    /\ DOMAIN tc = {"state", "authorizer", "authorizationResponseSigner", "encryptionKey"}

\* a handler with an encryption key has answered one request and rejected
\* another
C14_Witness ==
  /\ tc.state = "ok"
  /\ tc.encryptionKey.pub = "X1"
  /\ \E c, d \in CallIds :
       /\ call[c].pc = "replied"
       /\ reply[c].kind = "respond"
       /\ call[d].pc = "replied"
       /\ reply[d].kind = "respondError"

\* process has settled for the call and the endpoint has not replied yet
Settled(c) == call[c].pc \in {"resolved", "rejected"}

\* C15: for every request delivered to the endpoint the Service Wiring sends
\* exactly one reply once process settles: respond with the bytes when
\* process resolved, respondError when it rejected; never both (a reply is
\* never followed by another) and never neither (a settled call is
\* eventually replied to, and no call is marked replied without a reply).
C15_ExactlyOneReply ==
  /\ [](\A c \in CallIds :
          /\ call[c].pc # "replied" => reply[c] = NoReply
          /\ call[c].pc = "replied" =>
               /\ reply[c].kind \in {"respond", "respondError"}
               /\ reply[c].kind = "respond" =>
                    (call[c].err = NoError /\ reply[c].data = result[c]
                       /\ result[c] # NoResult)
               /\ reply[c].kind = "respondError" =>
                    (call[c].err # NoError /\ result[c] = NoResult))
  /\ [][\A c \in CallIds : reply[c] # NoReply => reply'[c] = reply[c]]_vars
  /\ \A c \in CallIds : Settled(c) ~> (call[c].pc = "replied")

\* one call was answered with respond and another with respondError
C15_Witness ==
  \E c, d \in CallIds :
    /\ call[c].pc = "replied"
    /\ reply[c].kind = "respond"
    /\ result[c] # NoResult
    /\ call[d].pc = "replied"
    /\ reply[d].kind = "respondError"
    /\ call[d].err = BadRequest

\* decode was called on something that is not a signed document
NotSignedDocument(c) == InTrace(c, "decode") /\ input[c].data.kind # "jwt"

\* decode was called on a signed document with another audience
AudienceMismatch(c) ==
  /\ InTrace(c, "decode")
  /\ input[c].data.kind = "jwt"
  /\ DocumentOf(c).aud # ExpectedAudience

\* decode was called on a signed document without the request object
MissingRequestObject(c) ==
  /\ InTrace(c, "decode")
  /\ input[c].data.kind = "jwt"
  /\ DocumentOf(c).aud = ExpectedAudience
  /\ ~DocumentOf(c).hasNats

\* the error reply of the generic bad-request fault
GenericBadRequestReply ==
  [kind |-> "respondError", data |-> NoResult, code |-> BadRequestCode,
   description |-> "error processing request", message |-> "bad request"]

\* C16: every rejection of process is sent as an error reply made of a
\* numeric code, the fixed short message and the error's message as detail;
\* a ServiceError keeps its code (the bad-request error of an audience
\* mismatch or a missing request object), every other error (configuration
\* mismatch, decryption failure, server key mismatch) is sent with 400.
C16_RejectionsSentAsErrorReplies ==
  \A c \in CallIds :
    (call[c].pc = "replied" /\ call[c].err # NoError) =>
      /\ reply[c].kind = "respondError"
      /\ reply[c].description = "error processing request"
      /\ reply[c].message = call[c].err.message
      /\ call[c].err.service => reply[c].code = call[c].err.code
      /\ ~call[c].err.service => reply[c].code = DefaultErrorCode
      /\ (AudienceMismatch(c) \/ MissingRequestObject(c)) =>
           reply[c].code = BadRequestCode
      /\ (HasKey # call[c].isEncrypted) => reply[c].code = DefaultErrorCode
      /\ OpenFailed(c) => reply[c].code = DefaultErrorCode
      /\ call[c].err = XkeyMismatchError => reply[c].code = DefaultErrorCode

\* a missing request object was answered with code 500 and a configuration
\* mismatch with code 400
C16_Witness ==
  \E c, d \in CallIds :
    /\ MissingRequestObject(c)
    /\ call[c].pc = "replied"
    /\ reply[c].code = BadRequestCode
    /\ call[d].err = MismatchServerRequires
    /\ call[d].pc = "replied"
    /\ reply[d].code = DefaultErrorCode

C18_NoReplyWhileAuthorizePending ==
  /\ [](\A c \in CallIds :
          /\ call[c].pc = "authorizing" =>
               (reply[c] = NoReply /\ result[c] = NoResult /\ cr[c] = NoDecision)
          /\ (reply[c] # NoReply /\ InTrace(c, "authorize")) =>
               (Decided(c) \/ AuthorizerFault(c)))
  /\ [][\A c \in CallIds :
          call[c].pc = "authorizing" =>
            /\ reply'[c] = NoReply
            /\ result'[c] = NoResult
            /\ \/ call'[c] = call[c] /\ cr'[c] = cr[c]
               \/ call'[c].pc = "encoding" /\ cr'[c] \in AuthorizerDecisions
               \/ call'[c].pc = "rejected" /\ call'[c].err \in AuthorizerThrows]_vars

\* a request waits for the Authorizer without a reply while a request
\* delivered after it has already been answered with an error
C18_Witness ==
  \E c, d \in CallIds :
    /\ d < c
    /\ call[d].pc = "authorizing"
    /\ reply[d] = NoReply
    /\ call[c].pc = "replied"
    /\ reply[c].kind = "respondError"

\* exactly one of the two fields of a decision is set
ExactlyOneSet(d) == (d.jwt # "") # (d.error # "")

\* C19 as stated: the decision in every response document has exactly one
\* of jwt and error set.
C19_Original ==
  \A c \in CallIds :
    Returned(c) => ExactlyOneSet(result[c].doc)

\* C19 amended: the decision in every response document is the decision the
\* Authorizer returned, field by field; it has exactly one of jwt and error
\* set exactly when the Authorizer's decision has, and process signs a
\* decision with neither or both set as it is.
C19_DecisionEmbeddedAsReturned ==
  \A c \in CallIds :
    Returned(c) =>
      /\ cr[c] \in AuthorizerDecisions
      /\ result[c].doc.jwt = cr[c].jwt
      /\ result[c].doc.error = cr[c].error
      /\ ExactlyOneSet(result[c].doc) <=> ExactlyOneSet(cr[c])

\* an empty decision was signed and sent
C19_Witness ==
  \E c \in CallIds :
    /\ call[c].pc = "replied"
    /\ reply[c].kind = "respond"
    /\ cr[c] = NoDecision
    /\ reply[c].data.doc.jwt = ""
    /\ reply[c].data.doc.error = ""
    /\ reply[c].data.doc.signedBy = "A1"

\* the encryption key was left out of the constructor's arguments
NoEncryptionKeyGiven == args.encryptionKey = NoKey

\* C20: a TokenCallout exists only for an authorizer, a signing key that is
\* an account key with its seed and, if one is given, an encryption key that
\* is a curve key; the constructor throws otherwise. Every handler that
\* processes requests holds such keys, and it requires encryption of all its
\* requests exactly when an encryption key was given.
C20_ConstructedWithCheckedKeys ==
  /\ tc.state = "ok" =>
       /\ args.authorizer
       /\ KeyType(args.authAccountKey.pub) = "A"
       /\ args.authAccountKey.seed
       /\ ~NoEncryptionKeyGiven => KeyType(args.encryptionKey.pub) = "X"
       /\ tc.authorizationResponseSigner = args.authAccountKey
       /\ tc.encryptionKey = args.encryptionKey
  /\ tc.state = "failed" =>
       \/ ~args.authorizer
       \/ KeyType(args.authAccountKey.pub) # "A"
       \/ ~args.authAccountKey.seed
       \/ /\ ~NoEncryptionKeyGiven
          /\ KeyType(args.encryptionKey.pub) # "X" \/ ~args.encryptionKey.seed
  /\ \A c \in CallIds :
       Started(c) =>
         /\ tc.state = "ok"
         /\ InTrace(c, "open") <=> (~NoEncryptionKeyGiven /\ call[c].isEncrypted)
         /\ InTrace(c, "decode") => (call[c].isEncrypted <=> ~NoEncryptionKeyGiven)
         /\ Returned(c) => ((result[c].sealedBy # "") <=> ~NoEncryptionKeyGiven)

\* a handler constructed with the curve key X1 rejected a request in the
\* clear and answered a sealed one
C20_Witness ==
  /\ tc.state = "ok"
  /\ args.encryptionKey = [pub |-> "X1", seed |-> TRUE]
  /\ \E c, d \in CallIds :
       /\ call[c].err = MismatchServiceRequires
       /\ call[d].pc = "replied"
       /\ reply[d].kind = "respond"
       /\ reply[d].data.sealedBy = "X1"

\* the same bytes and headers were given to process in both calls
SameRequest(c, d) == c # d /\ Started(c) /\ Started(d) /\ input[c] = input[d]

\* C21: when the same valid request bytes and headers are processed twice
\* and the Authorizer returns the same decision both times, the second call
\* is not refused for having been seen before, and both responses are
\* signed by the signing key, carry that decision and are addressed to the
\* same user and server.
C21_SameRequestSameResponse ==
  \A c, d \in CallIds :
    (SameRequest(c, d) /\ Returned(c)) =>
      /\ Failed(d) => AuthorizerFault(d)
      /\ (Returned(d) /\ cr[c] = cr[d]) =>
           /\ result[c].doc.signedBy = args.authAccountKey.pub
           /\ result[d].doc.signedBy = args.authAccountKey.pub
           /\ KeyType(result[c].doc.signedBy) = "A"
           /\ Decision(result[c].doc.jwt, result[c].doc.error) = cr[c]
           /\ Decision(result[d].doc.jwt, result[d].doc.error) = cr[c]
           /\ result[c].doc.sub = result[d].doc.sub
           /\ result[c].doc.aud = result[d].doc.aud
           /\ result[c].doc.sub = DocumentOf(c).nats.user_nkey
           /\ result[c].doc.aud = DocumentOf(c).nats.server_id.id

\* the same sealed request was answered twice with the token T1 for user
\* U1 at server N1
C21_Witness ==
  \E c, d \in CallIds :
    /\ SameRequest(c, d)
    /\ HasKey
    /\ call[c].pc = "replied" /\ reply[c].kind = "respond"
    /\ call[d].pc = "replied" /\ reply[d].kind = "respond"
    /\ cr[c] = Decision("T1", "") /\ cr[d] = Decision("T1", "")
    /\ reply[c].data.doc.sub = "U1" /\ reply[d].data.doc.sub = "U1"
    /\ reply[c].data.doc.aud = "N1" /\ reply[d].data.doc.aud = "N1"

\* how many times the subscription callback gave message m to handler h
TimesRouted(h, m) ==
  Cardinality({k \in 1..Len(handler[h].routed) : handler[h].routed[k] = m})

\* C22: every message that arrived on <prefix>.<token> was given exactly
\* once to the handler registered for that token when it arrived (the one
\* of the latest newMuxInbox for the token, not cancelled or ended since)
\* and to no other handler; a message for a token with no registered
\* handler was given to nobody.
C22_RoutedToRegisteredHandler ==
  \A m \in 1..Len(arrivals) :
    /\ arrivals[m].to = arrivals[m].registered
    /\ \A h \in HandlerIds :
         TimesRouted(h, m) = IF h = arrivals[m].registered THEN 1 ELSE 0

\* a stop callback waits in the iterator's queue
StopQueued(h) ==
  \E k \in 1..Len(handler[h].yields) : handler[h].yields[k] \in {StopFn, StopErrFn}

\* the iteration is over: stop has run and nothing is left to yield
Ended(h) == handler[h].done /\ handler[h].yields = <<>>

\* C23: once the subscription has closed and the callback of its closed
\* promise has run, every iterator obtained from newMuxInbox, whenever it
\* was registered, has ended or has its stop queued behind the messages
\* routed to it, so that it ends once its consumer has taken them; and an
\* iterator that has ended has yielded every message routed to it.
C23_IteratorsEndWhenSubscriptionCloses ==
  \A h \in HandlerIds :
    handler[h].kind = "iterator" =>
      /\ sub.notified => (handler[h].done \/ StopQueued(h))
      /\ Ended(h) => handler[h].got = handler[h].routed

\* C24: a handler cancelled with cancelMuxInbox was only given messages
\* that arrived while it was registered, none after the cancel; if it is
\* an iterator its stop has run or is queued behind the messages pushed
\* before the cancel, and once it has ended it has yielded all of them.
C24_CancelledHandlerGetsNoMore ==
  \A h \in HandlerIds :
    handler[h].api = "cancelled" =>
      /\ \A k \in 1..Len(handler[h].routed) :
           arrivals[handler[h].routed[k]].registered = h
      /\ handler[h].kind = "iterator" =>
           /\ handler[h].done \/ StopQueued(h)
           /\ Ended(h) => handler[h].got = handler[h].routed

\* the full subject of a partial subject: <prefix>.<p>
FullSubject(p) == MuxPrefix \o <<".">> \o p

\* C25 as stated: for every partial subject p that does not start with ".",
\* subjectFor(p) is <prefix>.<p>, tokenFor of it is p, and subjectFor of it
\* is itself.
C25_Original ==
  (conv.done /\ ~StartsWith(conv.arg, <<".">>)) =>
    /\ conv.subject = Returns(FullSubject(conv.arg))
    /\ conv.token = Returns(conv.arg)
    /\ conv.again = conv.subject

\* C25, amended: the same for every partial subject p that starts neither
\* with "." nor with the prefix.
C25_RoundTripOutsidePrefix ==
  (/\ conv.done
   /\ ~StartsWith(conv.arg, <<".">>)
   /\ ~StartsWith(conv.arg, MuxPrefix)) =>
    /\ conv.subject = Returns(FullSubject(conv.arg))
    /\ conv.token = Returns(conv.arg)
    /\ conv.again = conv.subject

\* the partial subject "x.q" was converted to "p.q.x.q" and back
C25_Witness ==
  /\ conv.done
  /\ conv.arg = <<"x", ".", "q">>
  /\ conv.subject = Returns(<<"p", ".", "q", ".", "x", ".", "q">>)
  /\ conv.token = Returns(<<"x", ".", "q">>)
  /\ conv.again = conv.subject

\* the increments of a counter the server has applied up to a stream
\* sequence
AppliedTo(counter, upTo) ==
  {j \in OpIds : /\ ops[j].kind = "increment"
                 /\ ops[j].name = counter
                 /\ ops[j].at \in 1..upTo}

\* the sum of the deltas the callers gave to a set of increments
RECURSIVE SumOfDeltas(_)
SumOfDeltas(S) ==
  IF S = {} THEN 0
  ELSE LET j == CHOOSE i \in S : TRUE
       IN  ops[j].n + SumOfDeltas(S \ {j})

\* C26: an increment resolves with the sum of the deltas, positive and
\* negative, applied to its counter up to and including its own, whatever
\* was applied to other counters; and the value the stream holds for a
\* counter is the sum of all deltas applied to it, none lost, however the
\* increments interleave
C26_IncrementReturnsSumOfDeltas ==
  /\ \A k \in OpIds :
       (ops[k].kind = "increment" /\ ops[k].pc = "resolved")
         => /\ ~ops[k].result.null
            /\ ops[k].result.value = SumOfDeltas(AppliedTo(ops[k].name, ops[k].at))
  /\ \A counter \in CounterNames :
       LET applied == AppliedTo(counter, Len(stream))
       IN  applied # {}
             => BigInt(stream[LastSeq(stream, counter)].val) = SumOfDeltas(applied)

\* two increments of one counter, a negative one among them, were applied
\* in the reverse of the order they were issued in, with an increment of
\* another counter between them, and all have resolved
C26_Witness ==
  /\ \A k \in 1..3 : ops[k].kind = "increment" /\ ops[k].pc = "resolved"
  /\ ops[1].name = ops[2].name
  /\ ops[3].name # ops[1].name
  /\ ops[2].at < ops[3].at
  /\ ops[3].at < ops[1].at
  /\ ops[1].n < 0
  /\ ops[2].n > 0
  /\ ops[1].result.value < 0

\* the revision a read of a counter is to return, the stream being as the
\* server had it when it answered: with seq > 0 the message at seq if it
\* is one of the counter, else the counter's latest message, else null
RevisionOf(counter, seq, upTo) ==
  LET had == SubSeq(stream, 1, upTo)
      i == IF seq > 0
           THEN (IF seq <= upTo /\ had[seq].subject = counter THEN seq ELSE 0)
           ELSE LastSeq(had, counter)
  IN  IF i = 0 THEN Null ELSE Counter(DirectMsg(had, i))

\* C27: getCounter(name, seq) resolves with the revision of the counter
\* name stored at seq, or its latest revision without seq, and with null
\* when there is no such message; value(name, seq) resolves with the value
\* of that revision, or null
C27_ReadsTheNamedCounter ==
  \A k \in OpIds :
    (ops[k].kind \in {"getCounter", "value"} /\ ops[k].pc = "resolved")
      => LET c == RevisionOf(ops[k].name, ops[k].seq, ops[k].at)
         IN  ops[k].result = IF ops[k].kind = "value" THEN ValueOnly(c) ELSE c

\* what an iterator over many counters is to yield, the stream being as
\* the server had it when it answered: for every counter that exists and
\* matches one of the names, its latest value, or its latest revision for
\* getCounters
LatestOfEach(kind, counters, upTo) ==
  LET had == SubSeq(stream, 1, upTo)
      seqs == Ascending(MultiLast(had, counters))
  IN  [j \in 1..Len(seqs) |->
         LET c == Counter(DirectMsg(had, seqs[j]))
         IN  IF kind = "values" THEN ValueOnly(c) ELSE c]

IsPrefix(s, t) == Len(s) <= Len(t) /\ s = SubSeq(t, 1, Len(s))

Batched(k) == ops[k].kind \in {"values", "getCounters"}

InvokedInOrder ==
  /\ Len(run.calls) <= Len(pipeline)
  /\ Len(run.outs) \in {Len(run.calls) - 1, Len(run.calls)}
  /\ \A j \in 1..Len(run.calls) :
       /\ run.calls[j].fn = pipeline[j]
       /\ run.calls[j].arg = IF j = 1 THEN run.arg ELSE run.outs[j - 1]

\* C29: transform(m) invokes the functions one at a time in the order
\* they were given to the constructor, the first with m and each other
\* with the message the previous one returned, and resolves with what
\* the last one returned; with no functions it resolves with m
C29_TransformChainsInOrder ==
  run.pc \in {"calling", "resolved", "rejected"}
    => /\ InvokedInOrder
       /\ run.pc = "calling" => Len(run.outs) = Len(run.calls) - 1
       /\ run.pc = "resolved"
            => /\ Len(run.calls) = Len(pipeline)
               /\ Len(run.outs) = Len(pipeline)
               /\ run.result = IF pipeline = <<>> THEN run.arg
                                ELSE run.outs[Len(pipeline)]

\* a pipeline of two functions resolved with what the second returned,
\* which is neither the message given nor what the first returned
C29_Witness ==
  /\ Len(pipeline) = 2
  /\ pipeline[1] # pipeline[2]
  /\ run.pc = "resolved"
  /\ run.outs[1] # run.arg
  /\ run.result # run.arg
  /\ run.result # run.outs[1]

\* C30: when a function throws or returns a promise that rejects,
\* transform rejects with that same error, and no function after the
\* failing one has been invoked
C30_RejectsWithErrorOfFailingFn ==
  /\ run.thrown # "" => run.pc = "rejected"
  /\ run.pc = "rejected"
       => /\ run.thrown # ""
          /\ run.err = run.thrown
          /\ Len(run.calls) = run.i
          /\ Len(run.outs) = run.i - 1

\* the first of two functions failed: transform rejected with its error
\* and the second was never invoked
C30_Witness ==
  /\ Len(pipeline) = 2
  /\ run.pc = "rejected"
  /\ run.err = "e2"
  /\ Len(run.calls) = 1

\* C31: SyncPipeline.transform never throws; when every function returned
\* it returns { isError: false, value } with what the last one returned,
\* else { isError: true, error } with the error the first failing
\* function threw, no function after that one having been invoked
C31_SyncTransformReturnsResult ==
  /\ sync.pc # "threw"
  /\ sync.pc = "returned"
       => /\ \A j \in 1..Len(sync.calls) : sync.calls[j].fn = sync.pipeline[j]
          /\ IF sync.thrown = ""
             THEN /\ Len(sync.calls) = Len(sync.pipeline)
                  /\ Len(sync.outs) = Len(sync.pipeline)
                  /\ ~sync.ret.isError
                  /\ sync.ret.value = IF sync.pipeline = <<>> THEN sync.arg
                                      ELSE sync.outs[Len(sync.pipeline)]
             ELSE /\ Len(sync.calls) = Len(sync.outs) + 1
                  /\ sync.ret.isError
                  /\ sync.ret.error = sync.thrown

\* the first of two functions threw: transform returned the error and
\* the second was never invoked
C31_Witness ==
  /\ Len(sync.pipeline) = 2
  /\ sync.pc = "returned"
  /\ sync.ret.isError
  /\ sync.ret.error = "e1"
  /\ Len(sync.calls) = 1

\* C32: without a publisher respond and respondError throw "publisher is
\* not set" and publish nothing; with a publisher each call publishes
\* one message, to the reply subject of the message, and returns true
C32_RespondNeedsPublisher ==
  mmsg.last.op # "none"
    => IF mmsg.last.publisher
       THEN /\ mmsg.last.result = "true"
            /\ Len(mmsg.published) = mmsg.last.before + 1
            /\ mmsg.published[Len(mmsg.published)].subject = mmsg.last.reply
       ELSE /\ mmsg.last.result = "publisher is not set"
            /\ Len(mmsg.published) = mmsg.last.before

\* respondError threw on a message made without a publisher, after a
\* respond had published to the reply subject
C32_Witness ==
  /\ mmsg.last.op = "respondError"
  /\ mmsg.last.result = "publisher is not set"
  /\ Len(mmsg.published) = 1
  /\ mmsg.published[1].subject = "r"

\* C33: the MutableMsg fromMsg(src) returns holds the subject, reply,
\* data, sid and headers of src, and no change made through it, by
\* assigning a property or by editing its headers or data in place,
\* changes src
C33_FromMsgClones ==
  (mmsg.pc = "made" /\ mmsg.src # NoFields)
    => /\ ~mmsg.changed => Held(mmsg.mm, mmsg.heap) = Held(mmsg.src, mmsg.heap)
       /\ Held(mmsg.src, mmsg.heap) = mmsg.orig

\* stop() has been called
StopCalled == \E j \in 1..Len(watch.log) : watch.log[j] = "stop"

\* C34: once stop() has been called on a KV watcher, whether its event
\* source was open or already closed, the stopped promise resolves and
\* the callback gets no further update. A closed event source dispatches
\* nothing, so after stop() nothing is left that could resolve the
\* promise later: it has to be resolved when stop() has returned
C34_StoppedResolvesAfterStop ==
  StopCalled
    => /\ watch.stopped
       /\ \A j, k \in 1..Len(watch.log) :
            (watch.log[j] = "stop" /\ j < k) => watch.log[k] # "update"

C39_AddLeavesConfigUnchanged ==
  /\ kvm.ttl = kvm.before
  /\ \A j, k \in 1..Len(kvm.sent) : kvm.sent[j].ttl = kvm.sent[k].ttl

\* the options encode and parse carry unchanged: servers is an array whose
\* first entry has no scheme, or is a ws or wss URL written as the URL
\* keeps it; the token alone or the user with the pass, of characters a
\* URL's userinfo keeps; a name that is not empty; whole numbers; no
\* handshakeFirst outside tls; tls, with a nats server only, with
\* handshakeFirst true
Carried(o) ==
  /\ o.servers.set /\ o.servers.v.array /\ o.servers.v.list # <<>>
  /\ LET first == o.servers.v.list[1]
     IN  \/ first.scheme = ""
         \/ /\ first.scheme \in {"ws", "wss"}
            /\ first.port # DefaultPort(first.scheme)
            /\ ~o.tls.set
  /\ o.user.set <=> o.pass.set
  /\ o.user.set => ~o.token.set /\ o.user.v # "" /\ o.pass.v # ""
  /\ \A f \in {"user", "pass", "token"} : o[f].set => o[f].v # "" /\ Userinfo(o[f].v) = o[f].v
  /\ o.name.set => o.name.v # <<>>
  /\ o.timeout.set => o.timeout.v.frac = <<>>
  /\ ~o.handshakeFirst.set
  /\ o.tls.set => /\ o.tls.v.handshakeFirst = Given(TRUE)
                  /\ o.tls.v.cert.set => o.tls.v.cert.v # ""

\* C36 as stated: for every connection-options object built from the
\* supported properties, encode returns and parse(encode(opts)) is deeply
\* equal to opts.
C36_ParseOfEncodeIsEveryOpts ==
  /\ copts.pc = "encoded" => ~copts.threw
  /\ copts.pc = "parsed" => copts.parsed = copts.opts

\* C36: for a connection-options object whose servers is a non-empty array
\* with a first entry without a scheme (or a ws/wss URL in the form the URL
\* keeps, and then no tls), with the token alone or user and pass together,
\* a non-empty name, whole numbers, no top-level handshakeFirst and tls only
\* with handshakeFirst true, parse(encode(opts)) is deeply equal to opts.
C36_ParseOfEncodeIsOpts ==
  Carried(copts.opts) =>
    /\ copts.pc = "encoded" => ~copts.threw
    /\ copts.pc = "parsed" => copts.parsed = copts.opts

\* the options of the "tls" test with a name that needs escaping: parsed
\* back from their encoding
C36_Witness ==
  /\ copts.pc = "parsed"
  /\ Carried(copts.opts)
  /\ copts.opts.tls.set
  /\ copts.opts.name = Given(<<"%">>)
  /\ copts.opts.timeout = Given(Num(10000))
  /\ copts.opts.debug.set
  /\ Len(copts.opts.servers.v.list) = 2
  /\ copts.encoded.protocol = "natss"

\* C37: the handler the caller holds registered for a token (given to the
\* latest newMuxInbox for it, not cancelled, replaced or ended since) is
\* the one the subscription has for that token: nothing else, the closing
\* of an iterator registered earlier for the token included, removes it.
C37_RegisteredHandlerStays ==
  \A t \in MuxTokens :
    Registered(t) # Undefined => handlers[t] = Registered(t)

\* the calls of the callback that carried a completion
Completions == {k \in 1..Len(gb.calls) : gb.calls[k].done # "null"}

\* the messages among the replies, by their number, in order of arrival
RECURSIVE MessagesOf(_)
MessagesOf(replies) ==
  IF replies = <<>> THEN <<>>
  ELSE LET before == MessagesOf(SubSeq(replies, 1, Len(replies) - 1))
       IN  IF replies[Len(replies)].code = 0 THEN Append(before, Len(replies))
           ELSE before

\* C38: the callback of a getBatch call is given the completion at most
\* once, as its last call, after one call for each message that arrived,
\* in order of arrival, and with the error if there was one; and once
\* getBatch's iterator has stopped (by the end-of-batch status, an error
\* status, a subscription error or a reply without Nats-Num-Pending) and
\* the callback of its closing has run, the completion has been given.
C38_DoneOnceAfterEveryMessage ==
  /\ Cardinality(Completions) <= 1
  /\ \A k \in Completions :
       /\ k = Len(gb.calls)
       /\ [j \in 1..(k - 1) |-> gb.calls[j].m] = MessagesOf(gb.arrived)
       /\ gb.calls[k].done = IF gb.err THEN "err" ELSE "ok"
  /\ \A j \in 1..Len(gb.calls) :
       j \notin Completions => gb.calls[j].m = MessagesOf(gb.arrived)[j]
  /\ (gb.done /\ ~gb.closing) => Completions # {}

\* two messages of a batch and the end-of-batch status have arrived and
\* the callback has been given both and then the completion
C38_Witness ==
  /\ gb.arrived = <<BatchReply(0, TRUE), BatchReply(0, TRUE), BatchReply(EndOfBatch, FALSE)>>
  /\ Len(gb.calls) = 3
  /\ gb.calls[3].done = "ok"

====
